---- MODULE Spec2Model ----
(***************************************************************************)
(* gcam (GPFS Current Activity Monitor): the record/delta data model, the  *)
(* max-min fair-share row allocation and the display loop with its pause   *)
(* key listener, as implemented in src/src/__main__.py.                    *)
(*                                                                         *)
(* Several specifications share the module:                                *)
(*   SpecRecordDelta  RecordDelta built from one pair of Records           *)
(*   SpecGroupDelta   RecordGroupDelta built from two RecordGroups         *)
(*   SpecMmfa         RecordGroupDelta._mmfa_ipf on a supply and demands   *)
(*   Spec, FairSpec   Display.__init__: the main thread, the key listener  *)
(*                    thread and the cleanup                               *)
(*   SpecNodeSeq      the node sequence of the tables                      *)
(*   SpecReceiver     the Receiver's generators on the lines of mmpmon     *)
(*   SpecTables       RecordGroupDelta.tables_str in both table formats    *)
(*   SpecDeltas       RecordGroupDeltaIterator on well-formed lines        *)
(***************************************************************************)
EXTENDS Integers, Sequences, FiniteSets

(***************************************************************************)
(* Bounds of the model.                                                    *)
(***************************************************************************)
\* width in bits of a byte counter (64 in mmpmon's output)
CounterBits == 2
\* record timestamps are drawn from 0..MaxTs
MaxTs == 2
\* byte counters of the records of a group are drawn from 0..MaxGroupCounter
MaxGroupCounter == 1
\* supplies (available rows) are drawn from 0..MaxSupply
MaxSupply == 5
\* demand tuples have 0..MaxTables entries
MaxTables == 3
\* each demand is drawn from 0..MaxDemand
MaxDemand == 3
\* the pipeline yields at most MaxGroups RecordGroupDeltas
MaxGroups == 3
\* the user presses at most MaxKeys keys
MaxKeys == 3
\* width in bits of the mantissa of a float (53 in Python)
MantissaBits == 2
\* the exponents of the floats lie in -MaxExponent..MaxExponent
MaxExponent == 8

Nodes == {"n1", "n2"}
Filesystems == {"gpfs0", "gpfs1"}

\* the modulus of RecordDelta._compute_deltas_and_speeds: 18446744073709551615
\* is 2**64 - 1; here 2**CounterBits - 1
CounterModulus == 2^CounterBits - 1
CounterValues == 0..(2^CounterBits - 1)

VARIABLES
    \* SpecRecordDelta
    rec_new, rec_old, rec_delta,
    \* SpecGroupDelta
    grp_new, grp_old, grp_delta,
    \* SpecMmfa
    num_avail_shares, demands, shares,
    \* which pure function has been applied ("idle", "ready", "done")
    fpc,
    \* SpecTables: the arguments of tables_str and the node names it displays
    format_, num_avail_lines, nn_seq, nn_seq_len,
    \* Spec: the position of the main thread in Display.__init__ and of the
    \* KeyListener thread in _key_listener
    main_pc, kl_pc,
    \* the attributes of the Display object
    _active, _disp_lock, _alert_msg, _recgrps, _recgrp_output_str,
    \* the attribute of the RecordGroupDeltaIterator and of the Receiver
    _receiver, _mmpmon_subprocess,
    \* the curses window: what _write put there, whether the alert overlay is
    \* in row 1, whether delch removed characters of the content
    screen,
    \* the number of RecordGroupDeltas yielded so far; the last one is recgrp
    pulled,
    \* the exception that left the try block ("" when none did)
    exc,
    \* the number of keys read by getkey
    keys,
    \* history: the calls of terminate(), the frames written by _write_recs,
    \* the steps of the finally block, what print wrote to stdout
    terminate_calls, frames, cleanup, stdout,
    \* history: the display was resumed and no group was yielded since; the
    \* last yielded group is the first one after a resume; what became of it
    awaiting, first_after_resume, outcome,
    \* SpecNodeSeq: the pieces of the output of mmlsnode split at the
    \* newlines, params.GPFS_NODESET ("" for None), the result of node_seq
    mmlsnode_output, GPFS_NODESET, _node_seq,
    \* SpecReceiver: the position of the generators of the Receiver, the
    \* directives written to the stdin of mmpmon, whether stdin was closed
    rpc, mmpmon_stdin, stdin_closed,
    \* the lines read from the stdout of mmpmon so far, the local count of
    \* _fsios_record_filter (0 while unbound), the Records that groupby holds
    \* for the group it is building
    lines, count, held,
    \* history: the dicts yielded by _record_processor and by
    \* _fsios_record_filter, the RecordGroups yielded by the Receiver, the
    \* exception that left the generators ("" when none did)
    parsed, events, groups, rexc,
    \* history: the RecordGroupDeltas yielded by RecordGroupDeltaIterator,
    \* each with the pair of RecordGroups it was computed from, the number of
    \* lines read when it was yielded and what ended its newer group
    deltas

tvars == <<format_, num_avail_lines, nn_seq, nn_seq_len>>

fvars == <<rec_new, rec_old, rec_delta, grp_new, grp_old, grp_delta,
           num_avail_shares, demands, shares, fpc, tvars>>

dvars == <<main_pc, kl_pc, _active, _disp_lock, _alert_msg, _recgrps,
           _recgrp_output_str, _receiver, _mmpmon_subprocess, screen, pulled,
           exc, keys, terminate_calls, frames, cleanup, stdout, awaiting,
           first_after_resume, outcome>>

pvars == <<mmlsnode_output, GPFS_NODESET, _node_seq, rpc, mmpmon_stdin,
           stdin_closed, lines, count, held, parsed, events, groups, rexc,
           deltas>>

vars == <<fvars, dvars, pvars>>

(***************************************************************************)
(* Record and RecordDelta.                                                 *)
(***************************************************************************)
\* A Record after Record._process: nn, fs, ts, br, bw and brw = br + bw.
Record(nn, fs, ts, br, bw) ==
    [nn |-> nn, fs |-> fs, ts |-> ts, br |-> br, bw |-> bw, brw |-> br + bw]

\* The result of a call: what was raised ("" when nothing was) and the value
\* returned, as a sequence of zero or one element.
Raised(exception) == [raised |-> exception, value |-> <<>>]
Returned(value) == [raised |-> "", value |-> <<value>>]

\* A speed in bytes per second, bytes / td, kept as the exact fraction.
Speed(bytes, td) == [num |-> bytes, den |-> td]

ByteDelta_NoModulo(new_bytes, old_bytes) == new_bytes - old_bytes

\* (new[attr] - old[attr]) % 18446744073709551615
ByteDelta(new_bytes, old_bytes) == (new_bytes - old_bytes) % CounterModulus

\* the delta of the total is taken from the bytes read alone
RecordDelta_TotalFromRead(new, old) ==
    IF ~(new.fs = old.fs /\ new.nn = old.nn) THEN Raised("AssertionError")
    ELSE LET td == new.ts - old.ts
             br == ByteDelta(new.br, old.br)
             bw == ByteDelta(new.bw, old.bw)
             brw == ByteDelta(new.br, old.br)
         IN  IF td = 0 THEN Raised("ZeroDivisionError")
             ELSE Returned([fs |-> new.fs, nn |-> new.nn, ts |-> new.ts,
                            td |-> td,
                            br |-> br, brps |-> Speed(br, td),
                            bw |-> bw, bwps |-> Speed(bw, td),
                            brw |-> brw, brwps |-> Speed(brw, td)])

\* RecordDelta.__init__ with _compute_deltas_and_speeds: the assertion on the
\* identity, the time delta, the three byte deltas and the three speeds; the
\* division raises ZeroDivisionError exactly when td is zero.
RecordDelta(new, old) ==
    IF ~(new.fs = old.fs /\ new.nn = old.nn) THEN Raised("AssertionError")
    ELSE LET td == new.ts - old.ts
             br == ByteDelta(new.br, old.br)
             bw == ByteDelta(new.bw, old.bw)
             brw == ByteDelta(new.brw, old.brw)
         IN  IF td = 0 THEN Raised("ZeroDivisionError")
             ELSE Returned([fs |-> new.fs, nn |-> new.nn, ts |-> new.ts,
                            td |-> td,
                            br |-> br, brps |-> Speed(br, td),
                            bw |-> bw, bwps |-> Speed(bw, td),
                            brw |-> brw, brwps |-> Speed(brw, td)])

(***************************************************************************)
(* RecordGroup and RecordGroupDelta.                                       *)
(***************************************************************************)
MaxOf(S) == CHOOSE m \in S : \A n \in S : n <= m

\* RecordGroup.__init__: the records and the latest of their timestamps.
RecordGroup(recs) ==
    [recs |-> recs, timestamp |-> MaxOf({recs[i].ts : i \in 1..Len(recs)})]

\* RecordGroup.rec_select: the first record of the node and file system, as
\* a sequence of zero (None) or one record.
RECURSIVE rec_select_from(_, _, _, _)
rec_select_from(recs, nn, fs, i) ==
    IF i > Len(recs) THEN <<>>
    ELSE IF nn = recs[i].nn /\ fs = recs[i].fs THEN <<recs[i]>>
    ELSE rec_select_from(recs, nn, fs, i + 1)

rec_select(grp, nn, fs) == rec_select_from(grp.recs, nn, fs, 1)

\* the test of the inner loop of _compute_recs_deltas
SameKey(rec_a, rec_b) == rec_a.fs = rec_b.fs /\ rec_a.nn = rec_b.nn

\* The inner loop of _compute_recs_deltas for one new record: the delta with
\* the first old record of the same key (then break), nothing without one.
RECURSIVE InnerLoop(_, _, _)
InnerLoop(rec, old_recs, j) ==
    IF j > Len(old_recs) THEN Returned(<<>>)
    ELSE IF SameKey(rec, old_recs[j])
         THEN LET d == RecordDelta(rec, old_recs[j])
              IN  IF d.raised # "" THEN Raised(d.raised)
                  ELSE Returned(d.value)
         ELSE InnerLoop(rec, old_recs, j + 1)

\* the break leaves the outer loop instead of the inner one
RECURSIVE compute_recs_deltas_BreakOuter(_, _, _, _)
compute_recs_deltas_BreakOuter(new_recs, old_recs, i, acc) ==
    IF i > Len(new_recs) THEN Returned(acc)
    ELSE LET r == InnerLoop(new_recs[i], old_recs, 1)
         IN  IF r.raised # "" THEN Raised(r.raised)
             ELSE IF r.value[1] # <<>> THEN Returned(acc \o r.value[1])
             ELSE compute_recs_deltas_BreakOuter(new_recs, old_recs, i + 1,
                                                 acc)

\* RecordGroupDelta._compute_recs_deltas: the outer loop over new.recs,
\* appending to self.recs; an exception of a RecordDelta propagates.
RECURSIVE compute_recs_deltas(_, _, _, _)
compute_recs_deltas(new_recs, old_recs, i, acc) ==
    IF i > Len(new_recs) THEN Returned(acc)
    ELSE LET r == InnerLoop(new_recs[i], old_recs, 1)
         IN  IF r.raised # "" THEN Raised(r.raised)
             ELSE compute_recs_deltas(new_recs, old_recs, i + 1,
                                      acc \o r.value[1])

(***************************************************************************)
(* Floating point.  A speed is the float that bytes / td yields, and the   *)
(* summary totals of the speeds are sums of floats.  A float is m * 2^e    *)
(* with a mantissa m of MantissaBits bits (53 in Python), every operation  *)
(* rounding its exact result to the nearest float, ties to the even        *)
(* mantissa.                                                               *)
(***************************************************************************)
Pow2(k) == 2^k
Abs(n) == IF n < 0 THEN -n ELSE n

FloatZero == [m |-> 0, e |-> 0]

\* a / b rounded to the nearest integer, ties to the even one (a >= 0, b > 0)
RoundHalfEven(a, b) ==
    LET q == a \div b
        r == a % b
    IN  IF 2 * r < b THEN q
        ELSE IF 2 * r > b THEN q + 1
        ELSE IF q % 2 = 0 THEN q ELSE q + 1

\* the float nearest to n / d (d is not zero)
FloatOfRatio(n, d) ==
    IF n = 0 THEN FloatZero
    ELSE LET a == Abs(n)
             b == Abs(d)
             sign == IF (n < 0) = (d < 0) THEN 1 ELSE -1
             num(x) == IF x < 0 THEN a * Pow2(-x) ELSE a
             den(x) == IF x > 0 THEN b * Pow2(x) ELSE b
             e == CHOOSE x \in -MaxExponent..MaxExponent :
                      /\ Pow2(MantissaBits - 1) * den(x) <= num(x)
                      /\ num(x) < Pow2(MantissaBits) * den(x)
             m == RoundHalfEven(num(e), den(e))
         IN  IF m = Pow2(MantissaBits)
             THEN [m |-> sign * Pow2(MantissaBits - 1), e |-> e + 1]
             ELSE [m |-> sign * m, e |-> e]

\* x + y on floats
FloatAdd(x, y) ==
    LET emin == IF x.e < y.e THEN x.e ELSE y.e
        n == x.m * Pow2(x.e - emin) + y.m * Pow2(y.e - emin)
    IN  IF emin < 0 THEN FloatOfRatio(n, Pow2(-emin))
        ELSE FloatOfRatio(n * Pow2(emin), 1)

(***************************************************************************)
(* RecordGroup.compute_summary_stats.                                      *)
(***************************************************************************)
\* RecordGroup._lev1_summary_stat_types
_lev1_summary_stat_types == {"nn", "fs"}
\* RecordGroup._lev2_summary_stat_types
RecordGroup_lev2_summary_stat_types == {"br", "bw", "brw"}
\* RecordGroupDelta._lev2_summary_stat_types
RecordGroupDelta_lev2_summary_stat_types ==
    {"br", "bw", "brw", "brps", "bwps", "brwps"}

\* the stats that are floats: self[attr + 'ps'] = self[attr] / self.td
SpeedTypes == {"brps", "bwps", "brwps"}

\* rec[stat] as a number: an int, or the float of the division
StatOf(rec, stat) ==
    IF stat \in SpeedTypes THEN FloatOfRatio(rec[stat].num, rec[stat].den)
    ELSE rec[stat]

\* the 0 a total starts from
StatZero(stat) == IF stat \in SpeedTypes THEN FloatZero ELSE 0

\* total + rec[stat]
StatAdd(stat, total, value) ==
    IF stat \in SpeedTypes THEN FloatAdd(total, value) ELSE total + value

\* the exact value of a stat in units of 2^-MaxExponent (a float is m * 2^e)
ExactValue(stat, v) ==
    IF stat \in SpeedTypes THEN v.m * Pow2(v.e + MaxExponent)
    ELSE v * Pow2(MaxExponent)

\* the key test of the loop is dropped: every record is added to every total
RECURSIVE lev1_total_AnyKey(_, _, _, _, _, _)
lev1_total_AnyKey(recs, lev1_stattype, i, stat, k, acc) ==
    IF k > Len(recs) THEN acc
    ELSE lev1_total_AnyKey(recs, lev1_stattype, i, stat, k + 1,
                           StatAdd(stat, acc, StatOf(recs[k], stat)))

\* The loop over self.recs of _compute_lev1_summary_stats for one item i and
\* one stat: curr_summary_stats[stat] += rec[stat] for the records of i, in
\* the order of the records.
RECURSIVE lev1_total(_, _, _, _, _, _)
lev1_total(recs, lev1_stattype, i, stat, k, acc) ==
    IF k > Len(recs) THEN acc
    ELSE lev1_total(recs, lev1_stattype, i, stat, k + 1,
                    IF i = recs[k][lev1_stattype]
                    THEN StatAdd(stat, acc, StatOf(recs[k], stat))
                    ELSE acc)

\* RecordGroup._compute_lev1_summary_stats: one entry per item of seq
compute_lev1_summary_stats(recs, lev1_stattype, lev2_stattypes) ==
    [i \in {recs[k][lev1_stattype] : k \in 1..Len(recs)} |->
        [stat \in lev2_stattypes |->
            lev1_total(recs, lev1_stattype, i, stat, 1, StatZero(stat))]]

\* sum(rec[lev2_stattype] for rec in self.recs)
RECURSIVE lev2_total(_, _, _, _)
lev2_total(recs, stat, k, acc) ==
    IF k > Len(recs) THEN acc
    ELSE lev2_total(recs, stat, k + 1,
                    StatAdd(stat, acc, StatOf(recs[k], stat)))

\* RecordGroup.compute_summary_stats, for the stat types of the class
compute_summary_stats(recs, lev2_stattypes) ==
    [lev1_summary_stats |->
        [lev1_stattype \in _lev1_summary_stat_types |->
            compute_lev1_summary_stats(recs, lev1_stattype, lev2_stattypes)],
     lev2_summary_stats |->
        [stat \in lev2_stattypes |->
            lev2_total(recs, stat, 1, StatZero(stat))]]

\* RecordGroupDelta.__init__: timestamp, time_duration_secs, recs and the
\* summary stats.
RecordGroupDelta(new, old) ==
    LET r == compute_recs_deltas(new.recs, old.recs, 1, <<>>)
    IN  IF r.raised # "" THEN Raised(r.raised)
        ELSE LET stats == compute_summary_stats(
                              r.value[1],
                              RecordGroupDelta_lev2_summary_stat_types)
             IN  Returned([timestamp |-> new.timestamp,
                           time_duration_secs |->
                               new.timestamp - old.timestamp,
                           recs |-> r.value[1],
                           lev1_summary_stats |-> stats.lev1_summary_stats,
                           lev2_summary_stats |-> stats.lev2_summary_stats])

(***************************************************************************)
(* RecordGroupDelta._mmfa_ipf: max-min fair allocation by incremental      *)
(* progressive filling.                                                    *)
(***************************************************************************)
\* the order of sorted(zip(demands, range(len(demands))), reverse=True):
\* pair (d1, i1) comes before pair (d2, i2)
PairBefore(d1, i1, d2, i2) == d1 > d2 \/ (d1 = d2 /\ i1 > i2)

\* The original positions in sorted order: SortedOrder(d)[k] is the original
\* position of the k-th entry of the descending sort.
SortedOrder(d) ==
    CHOOSE p \in [1..Len(d) -> 1..Len(d)] :
        /\ \A a, b \in 1..Len(d) : a # b => p[a] # p[b]
        /\ \A a, b \in 1..Len(d) :
               a < b => PairBefore(d[p[a]], p[a], d[p[b]], p[b])

\* i = (i + 1) % len_, on positions counted from 1
NextIndex(i, len_) == (i % len_) + 1

\* only the first demand is looked at
AnyDemand_First(d) == d[1] # 0

\* any(demands)
AnyDemand(d) == \E k \in 1..Len(d) : d[k] # 0

\* the supply is not decremented when a share is granted
RECURSIVE Fill_NoSupplyDecrement(_, _, _, _)
Fill_NoSupplyDecrement(avail, d, sh, i) ==
    IF avail # 0 /\ AnyDemand(d)
    THEN IF d[i] # 0
         THEN Fill_NoSupplyDecrement(avail, [d EXCEPT ![i] = @ - 1],
                                     [sh EXCEPT ![i] = @ + 1],
                                     NextIndex(i, Len(d)))
         ELSE Fill_NoSupplyDecrement(avail, d, sh, NextIndex(i, Len(d)))
    ELSE sh

\* the position advances only past a demand that is fully met
RECURSIVE Fill_Greedy(_, _, _, _)
Fill_Greedy(avail, d, sh, i) ==
    IF avail # 0 /\ AnyDemand(d)
    THEN IF d[i] # 0
         THEN Fill_Greedy(avail - 1, [d EXCEPT ![i] = @ - 1],
                          [sh EXCEPT ![i] = @ + 1], i)
         ELSE Fill_Greedy(avail, d, sh, NextIndex(i, Len(d)))
    ELSE sh

\* The while loop: one share to the demand at i when it is non-zero, then on
\* to the next position, while shares are available and a demand is unmet.
RECURSIVE Fill(_, _, _, _)
Fill(avail, d, sh, i) ==
    IF avail # 0 /\ AnyDemand(d)
    THEN IF d[i] # 0
         THEN Fill(avail - 1, [d EXCEPT ![i] = @ - 1],
                   [sh EXCEPT ![i] = @ + 1], NextIndex(i, Len(d)))
         ELSE Fill(avail, d, sh, NextIndex(i, Len(d)))
    ELSE sh

\* the shares are returned in the order of the descending sort
mmfa_ipf_SortedOutput(avail, d) ==
    IF Len(d) = 0 THEN Raised("ValueError")
    ELSE LET order == SortedOrder(d)
             sorted_demands == [k \in 1..Len(d) |-> d[order[k]]]
         IN  Returned(Fill(avail, sorted_demands, [k \in 1..Len(d) |-> 0], 1))

\* _mmfa_ipf: unpacking the zip of an empty sort raises ValueError; otherwise
\* the demands are sorted descending, filled, and the shares are returned in
\* the original order of the demands.
mmfa_ipf(avail, d) ==
    IF Len(d) = 0 THEN Raised("ValueError")
    ELSE LET order == SortedOrder(d)
             sorted_demands == [k \in 1..Len(d) |-> d[order[k]]]
             indexes == [j \in 1..Len(d) |->
                            CHOOSE k \in 1..Len(d) : order[k] = j]
             filled == Fill(avail, sorted_demands, [k \in 1..Len(d) |-> 0], 1)
         IN  Returned([j \in 1..Len(d) |-> filled[indexes[j]]])

(***************************************************************************)
(* The inputs of the pure functions.                                       *)
(***************************************************************************)
NotCalled == [raised |-> "not called", value |-> <<>>]

\* the (node, file system) keys in the order of the sort of
\* Receiver._fsios_record_grouper: by nn, then by fs
KeyOrder == << <<"n1", "gpfs0">>, <<"n1", "gpfs1">>,
               <<"n2", "gpfs0">>, <<"n2", "gpfs1">> >>

KeyPositions == 1..Len(KeyOrder)

\* The records of a group as _fsios_record_grouper leaves them: one record
\* per responding key, sorted by (nn, fs). S is the set of positions of the
\* responding keys, c gives the counters of each.
GroupRecs(S, ts, c) ==
    LET present(k) == k \in S
        positions == SelectSeq([k \in KeyPositions |-> k], present)
    IN  [i \in 1..Len(positions) |->
            Record(KeyOrder[positions[i]][1], KeyOrder[positions[i]][2], ts,
                   c[positions[i]][1], c[positions[i]][2])]

KeysOf(recs) == {<<recs[i].nn, recs[i].fs>> : i \in 1..Len(recs)}

RECURSIVE SumSeq(_)
SumSeq(q) == IF q = <<>> THEN 0 ELSE Head(q) + SumSeq(Tail(q))

DemandTuples == UNION {[1..n -> 0..MaxDemand] : n \in 0..MaxTables}

\* the state of the Display before Display() is called
DisplayIdle ==
    /\ main_pc = "isatty" /\ kl_pc = "off"
    /\ _active = TRUE /\ _disp_lock = "free" /\ _alert_msg = ""
    /\ _recgrps = "unset" /\ _recgrp_output_str = 0
    /\ _receiver = "unset" /\ _mmpmon_subprocess = "unset"
    /\ screen = [content |-> 0, overlay |-> FALSE, damaged |-> FALSE]
    /\ pulled = 0 /\ exc = "" /\ keys = 0
    /\ terminate_calls = 0 /\ frames = <<>> /\ cleanup = <<>> /\ stdout = 0
    /\ awaiting = FALSE /\ first_after_resume = FALSE /\ outcome = "none"

PipelineIdle ==
    /\ mmlsnode_output = <<>> /\ GPFS_NODESET = "" /\ _node_seq = NotCalled
    /\ rpc = "idle" /\ mmpmon_stdin = <<>> /\ stdin_closed = FALSE
    /\ lines = <<>> /\ count = 0 /\ held = <<>>
    /\ parsed = <<>> /\ events = <<>> /\ groups = <<>> /\ rexc = ""
    /\ deltas = <<>>

\* tables_str has not been called
TablesIdle ==
    /\ format_ = "" /\ num_avail_lines = 0
    /\ nn_seq = <<>> /\ nn_seq_len = <<>>

FunctionsIdle ==
    /\ rec_new = <<>> /\ rec_old = <<>> /\ rec_delta = NotCalled
    /\ grp_new = <<>> /\ grp_old = <<>> /\ grp_delta = NotCalled
    /\ num_avail_shares = 0 /\ demands = <<>> /\ shares = NotCalled
    /\ fpc = "idle"
    /\ TablesIdle

(***************************************************************************)
(* SpecRecordDelta: new - old for one pair of Records.                     *)
(***************************************************************************)
InitRecordDelta ==
    /\ \E nn \in Nodes, ts \in 0..MaxTs, br \in CounterValues,
          bw \in CounterValues :
           rec_new = Record(nn, "gpfs0", ts, br, bw)
    /\ \E nn \in Nodes, ts \in 0..MaxTs, br \in CounterValues,
          bw \in CounterValues :
           rec_old = Record(nn, "gpfs0", ts, br, bw)
    /\ rec_delta = NotCalled
    /\ grp_new = <<>> /\ grp_old = <<>> /\ grp_delta = NotCalled
    /\ num_avail_shares = 0 /\ demands = <<>> /\ shares = NotCalled
    /\ fpc = "ready"
    /\ TablesIdle
    /\ DisplayIdle
    /\ PipelineIdle

\* Record.__sub__: rec_new - rec_old
RecordSub ==
    /\ fpc = "ready"
    /\ rec_delta' = RecordDelta(rec_new, rec_old)
    /\ fpc' = "done"
    /\ UNCHANGED <<rec_new, rec_old, grp_new, grp_old, grp_delta,
                   num_avail_shares, demands, shares>>
    /\ UNCHANGED <<tvars, dvars, pvars>>

NextRecordDelta == RecordSub

SpecRecordDelta == InitRecordDelta /\ [][NextRecordDelta]_vars

(***************************************************************************)
(* SpecGroupDelta: new - old for two RecordGroups.                         *)
(***************************************************************************)
InitGroupDelta ==
    /\ \E S \in (SUBSET KeyPositions) \ {{}}, bw \in 0..MaxGroupCounter :
       \E br \in [S -> 0..MaxGroupCounter] :
           grp_new = RecordGroup(GroupRecs(S, 1, [k \in S |-> <<br[k], bw>>]))
    /\ \E S \in (SUBSET KeyPositions) \ {{}}, ts \in 0..MaxTs,
          b \in 0..MaxGroupCounter :
           grp_old = RecordGroup(GroupRecs(S, ts, [k \in S |-> <<b, b>>]))
    /\ grp_delta = NotCalled
    /\ rec_new = <<>> /\ rec_old = <<>> /\ rec_delta = NotCalled
    /\ num_avail_shares = 0 /\ demands = <<>> /\ shares = NotCalled
    /\ fpc = "ready"
    /\ TablesIdle
    /\ DisplayIdle
    /\ PipelineIdle

\* RecordGroup.__sub__: grp_new - grp_old
RecordGroupSub ==
    /\ fpc = "ready"
    /\ grp_delta' = RecordGroupDelta(grp_new, grp_old)
    /\ fpc' = "done"
    /\ UNCHANGED <<rec_new, rec_old, rec_delta, grp_new, grp_old,
                   num_avail_shares, demands, shares>>
    /\ UNCHANGED <<tvars, dvars, pvars>>

NextGroupDelta == RecordGroupSub

SpecGroupDelta == InitGroupDelta /\ [][NextGroupDelta]_vars

(***************************************************************************)
(* SpecMmfa: _mmfa_ipf(num_avail_shares, demands).                         *)
(***************************************************************************)
InitMmfa ==
    /\ num_avail_shares \in 0..MaxSupply
    /\ demands \in DemandTuples
    /\ shares = NotCalled
    /\ rec_new = <<>> /\ rec_old = <<>> /\ rec_delta = NotCalled
    /\ grp_new = <<>> /\ grp_old = <<>> /\ grp_delta = NotCalled
    /\ fpc = "ready"
    /\ TablesIdle
    /\ DisplayIdle
    /\ PipelineIdle

\* the call self._mmfa_ipf(num_avail_lines, lines_reqd_seq)
CallMmfa ==
    /\ fpc = "ready"
    /\ shares' = mmfa_ipf(num_avail_shares, demands)
    /\ fpc' = "done"
    /\ UNCHANGED <<rec_new, rec_old, rec_delta, grp_new, grp_old, grp_delta,
                   num_avail_shares, demands>>
    /\ UNCHANGED <<tvars, dvars, pvars>>

NextMmfa == CallMmfa

SpecMmfa == InitMmfa /\ [][NextMmfa]_vars

(***************************************************************************)
(* Properties of RecordGroupDelta and RecordDelta.                         *)
(***************************************************************************)
\* C1: the RecordGroupDelta of two groups holds exactly one RecordDelta for
\* each (node, file system) key present in both groups and none for a key of
\* only one group; the number of deltas is the size of the intersection of
\* the two key sets.
C1_Matching ==
    (fpc = "done" /\ grp_delta.raised = "") =>
        LET recs == grp_delta.value[1].recs
            both == KeysOf(grp_new.recs) \cap KeysOf(grp_old.recs)
        IN  /\ \A key \in both :
                   Cardinality({i \in 1..Len(recs) :
                                   <<recs[i].nn, recs[i].fs>> = key}) = 1
            /\ \A i \in 1..Len(recs) : <<recs[i].nn, recs[i].fs>> \in both
            /\ Len(recs) = Cardinality(both)

\* a delta was built from groups that share keys and that each have a key the
\* other lacks
C1_Witness ==
    /\ fpc = "done" /\ grp_delta.raised = ""
    /\ KeysOf(grp_new.recs) \cap KeysOf(grp_old.recs) # {}
    /\ KeysOf(grp_new.recs) \ KeysOf(grp_old.recs) # {}
    /\ KeysOf(grp_old.recs) \ KeysOf(grp_new.recs) # {}
    /\ Len(grp_delta.value[1].recs) = 2

\* d is the residue of n modulo CounterModulus: within 0..CounterModulus-1
\* and a whole number of moduli away from n
IsResidue(d, n) ==
    /\ 0 <= d /\ d < CounterModulus
    /\ \E k \in -3..3 : d = n + k * CounterModulus

\* C2: each byte field (read, written, total) of a RecordDelta is
\* (new - old) mod (2^bits - 1) and is never negative, also when the newer
\* counter is smaller than the older one.
C2_Wraparound ==
    (fpc = "done" /\ rec_delta.raised = "") =>
        LET d == rec_delta.value[1]
        IN  /\ IsResidue(d.br, rec_new.br - rec_old.br)
            /\ IsResidue(d.bw, rec_new.bw - rec_old.bw)
            /\ IsResidue(d.brw, rec_new.brw - rec_old.brw)

\* a delta was built from a pair whose read counter wrapped
C2_Witness ==
    /\ fpc = "done" /\ rec_delta.raised = ""
    /\ rec_new.br < rec_old.br
    /\ rec_delta.value[1].br = rec_new.br - rec_old.br + CounterModulus

\* C3: constructing a RecordDelta from two records of the same key whose time
\* delta is zero or negative always fails and never yields a RecordDelta.
C3_NonPositiveTimeDeltaFails ==
    (/\ fpc = "done"
     /\ rec_new.nn = rec_old.nn /\ rec_new.fs = rec_old.fs
     /\ rec_new.ts - rec_old.ts <= 0) => rec_delta.raised # ""

(***************************************************************************)
(* Properties of the fair-share allocation.                                *)
(***************************************************************************)
\* C4: the shares sum to at most the supply, no share exceeds its demand, and
\* every share equals its demand when the demands sum to at most the supply.
C4_Conservation ==
    (fpc = "done" /\ shares.raised = "") =>
        LET sh == shares.value[1]
        IN  /\ Len(sh) = Len(demands)
            /\ SumSeq(sh) <= num_avail_shares
            /\ \A i \in 1..Len(sh) : 0 <= sh[i] /\ sh[i] <= demands[i]
            /\ SumSeq(demands) <= num_avail_shares => sh = demands

\* an allocation was made with more demand than supply
C4_Witness ==
    /\ fpc = "done" /\ shares.raised = ""
    /\ Len(demands) = 3
    /\ SumSeq(demands) > num_avail_shares
    /\ SumSeq(shares.value[1]) = num_avail_shares
    /\ num_avail_shares > 0

\* the supply is used up by the allocation
Exhausted == SumSeq(shares.value[1]) = num_avail_shares

\* C5 as stated: when the supply is exhausted, a share below its demand can
\* only grow by one at the cost of a share that is already equal or smaller:
\* no other table holds more than a table with unmet demand.
C5_MaxMinStrict ==
    (fpc = "done" /\ shares.raised = "" /\ Exhausted) =>
        LET sh == shares.value[1]
        IN  \A j, k \in 1..Len(sh) :
                (sh[j] < demands[j] /\ k # j) => sh[k] <= sh[j]

\* C5 amended: when the supply is exhausted, no table holds more than one
\* share above a table with unmet demand.
C5_MaxMinWithinOne ==
    (fpc = "done" /\ shares.raised = "" /\ Exhausted) =>
        LET sh == shares.value[1]
        IN  \A j, k \in 1..Len(sh) :
                (sh[j] < demands[j] /\ k # j) => sh[k] <= sh[j] + 1

\* the supply is exhausted, a table has unmet demand and another table holds
\* exactly one share more
C5_Witness ==
    /\ fpc = "done" /\ shares.raised = "" /\ Exhausted
    /\ \E j, k \in 1..Len(demands) :
           /\ shares.value[1][j] < demands[j]
           /\ shares.value[1][k] = shares.value[1][j] + 1

(***************************************************************************)
(* Spec: Display.__init__ (the main thread) and _key_listener (the         *)
(* KeyListener thread).                                                    *)
(***************************************************************************)
\* params.PRINT_LAST_RECORD
PRINT_LAST_RECORD == TRUE

\* the positions of the main thread inside the try block of Display.__init__
TryBlock == {"init_curses", "status_acquire", "status_write",
             "status_release", "new_iterator", "pull", "discover", "launch",
             "read", "check_active", "acquire", "format", "write", "release",
             "sleep"}

\* the positions inside "with self._disp_lock" of _write_initial_status
WithBlock == {"status_write", "status_release"}

\* what the generators behind RecordGroupDeltaIterator raise while reading:
\* the "cannot connect" SubprocessError, a line or record that breaks the
\* protocol, a RecordDelta with a zero time delta
ReadErrors == {"SubprocessError", "KeyError", "ZeroDivisionError"}

Init ==
    /\ DisplayIdle
    /\ PipelineIdle
    /\ FunctionsIdle

\* an exception leaves the try block and enters the finally block
Raise(exception) == main_pc' = "endwin" /\ exc' = exception

\* if not sys.stdout.isatty(): raise errors.TTYError, before the try block
IsATty ==
    /\ main_pc = "isatty"
    /\ \/ main_pc' = "init_curses" /\ exc' = exc
       \/ main_pc' = "done" /\ exc' = "TTYError"
    /\ UNCHANGED <<kl_pc, _active, _disp_lock, _alert_msg, _recgrps,
                   _recgrp_output_str, _receiver, _mmpmon_subprocess, screen,
                   pulled, keys, terminate_calls, frames, cleanup, stdout,
                   awaiting, first_after_resume, outcome>>
    /\ UNCHANGED <<fvars, pvars>>

\* _init_curses: _alert_msg, initscr (which may raise curses.error), then
\* _init_key_listener: _active, _disp_lock and the start of the thread
InitCurses ==
    /\ main_pc = "init_curses"
    /\ _alert_msg' = ""
    /\ \/ /\ main_pc' = "status_acquire" /\ exc' = exc
          /\ _active' = TRUE /\ _disp_lock' = "free" /\ kl_pc' = "getkey"
       \/ /\ Raise("curses.error")
          /\ UNCHANGED <<_active, _disp_lock, kl_pc>>
    /\ UNCHANGED <<_recgrps, _recgrp_output_str, _receiver,
                   _mmpmon_subprocess, screen, pulled, keys, terminate_calls,
                   frames, cleanup, stdout, awaiting, first_after_resume,
                   outcome>>
    /\ UNCHANGED <<fvars, pvars>>

\* _write_initial_status: "with self._disp_lock" waits for the lock
StatusAcquire ==
    /\ main_pc = "status_acquire"
    /\ _disp_lock = "free"
    /\ _disp_lock' = "main"
    /\ main_pc' = "status_write"
    /\ UNCHANGED <<kl_pc, _active, _alert_msg, _recgrps, _recgrp_output_str,
                   _receiver, _mmpmon_subprocess, screen, pulled, exc, keys,
                   terminate_calls, frames, cleanup, stdout, awaiting,
                   first_after_resume, outcome>>
    /\ UNCHANGED <<fvars, pvars>>

\* Display._write: erase, addstr, refresh; the window then shows the content
\* and nothing else
WriteWindow(content) ==
    [content |-> content, overlay |-> FALSE, damaged |-> FALSE]

\* self._write(status); leaving the with block by an exception releases the
\* lock
StatusWrite ==
    /\ main_pc = "status_write"
    /\ \/ /\ screen' = WriteWindow(-1)
          /\ main_pc' = "status_release" /\ exc' = exc
          /\ UNCHANGED _disp_lock
       \/ /\ Raise("curses.error")
          /\ _disp_lock' = "free"
          /\ UNCHANGED screen
    /\ UNCHANGED <<kl_pc, _active, _alert_msg, _recgrps, _recgrp_output_str,
                   _receiver, _mmpmon_subprocess, pulled, keys,
                   terminate_calls, frames, cleanup, stdout, awaiting,
                   first_after_resume, outcome>>
    /\ UNCHANGED <<fvars, pvars>>

\* the end of the with block of _write_initial_status
StatusRelease ==
    /\ main_pc = "status_release"
    /\ _disp_lock' = "free"
    /\ main_pc' = "new_iterator"
    /\ UNCHANGED <<kl_pc, _active, _alert_msg, _recgrps, _recgrp_output_str,
                   _receiver, _mmpmon_subprocess, screen, pulled, exc, keys,
                   terminate_calls, frames, cleanup, stdout, awaiting,
                   first_after_resume, outcome>>
    /\ UNCHANGED <<fvars, pvars>>

\* _write_recs: self._recgrps = RecordGroupDeltaIterator()
NewIterator ==
    /\ main_pc = "new_iterator"
    /\ _recgrps' = "set"
    /\ main_pc' = "pull"
    /\ UNCHANGED <<kl_pc, _active, _disp_lock, _alert_msg,
                   _recgrp_output_str, _receiver, _mmpmon_subprocess, screen,
                   pulled, exc, keys, terminate_calls, frames, cleanup,
                   stdout, awaiting, first_after_resume, outcome>>
    /\ UNCHANGED <<fvars, pvars>>

\* the first next() of RecordGroupDeltaIterator.__iter__:
\* self._receiver = Receiver()
PullStart ==
    /\ main_pc = "pull"
    /\ _receiver' = "set"
    /\ main_pc' = "discover"
    /\ UNCHANGED <<kl_pc, _active, _disp_lock, _alert_msg, _recgrps,
                   _recgrp_output_str, _mmpmon_subprocess, screen, pulled,
                   exc, keys, terminate_calls, frames, cleanup, stdout,
                   awaiting, first_after_resume, outcome>>
    /\ UNCHANGED <<fvars, pvars>>

\* what subprocess.check_output and subprocess.Popen raise when the command
\* cannot be started (OSError) or, for check_output, exits with a non-zero
\* status (CalledProcessError)
LaunchFailures == {"OSError", "CalledProcessError"}

\* Receiver.node_seq: "except (OSError, subprocess.CalledProcessError) as
\* exception: raise errors.SubprocessError(str(exception))"
node_seq_except(cause) ==
    IF cause \in LaunchFailures THEN "SubprocessError" ELSE cause

\* Receiver._mmpmon_caller: subprocess.Popen is called outside any try
\* statement, so what it raises leaves the method unchanged
mmpmon_caller_except(cause) == cause

\* Receiver.node_seq, read by _mmpmon_caller before the subprocess is
\* started: SubprocessError when mmlsnode cannot be run, ArgumentError when
\* the nodeset is not found
Discover ==
    /\ main_pc = "discover"
    /\ \/ main_pc' = "launch" /\ exc' = exc
       \/ \E cause \in LaunchFailures : Raise(node_seq_except(cause))
       \/ Raise("ArgumentError")
    /\ UNCHANGED <<kl_pc, _active, _disp_lock, _alert_msg, _recgrps,
                   _recgrp_output_str, _receiver, _mmpmon_subprocess, screen,
                   pulled, keys, terminate_calls, frames, cleanup, stdout,
                   awaiting, first_after_resume, outcome>>
    /\ UNCHANGED <<fvars, pvars>>

\* _mmpmon_caller: self._mmpmon_subprocess = subprocess.Popen(...), which
\* may raise OSError, then the writes to its stdin, which may raise IOError
Launch ==
    /\ main_pc = "launch"
    /\ \/ /\ _mmpmon_subprocess' = "running"
          /\ main_pc' = "read" /\ exc' = exc
       \/ /\ _mmpmon_subprocess' = "running"
          /\ Raise("IOError")
       \/ /\ UNCHANGED _mmpmon_subprocess
          /\ Raise(mmpmon_caller_except("OSError"))
    /\ UNCHANGED <<kl_pc, _active, _disp_lock, _alert_msg, _recgrps,
                   _recgrp_output_str, _receiver, screen, pulled, keys,
                   terminate_calls, frames, cleanup, stdout, awaiting,
                   first_after_resume, outcome>>
    /\ UNCHANGED <<fvars, pvars>>

\* "for recgrp in self._recgrps": the generators read lines until the next
\* RecordGroupDelta is yielded, the stream ends, or one of them raises
Read ==
    /\ main_pc = "read"
    /\ \/ /\ pulled < MaxGroups
          /\ pulled' = pulled + 1
          /\ main_pc' = "check_active" /\ exc' = exc
          /\ first_after_resume' = awaiting
          /\ awaiting' = FALSE
          /\ outcome' = "none"
       \/ /\ main_pc' = "sleep" /\ exc' = exc
          /\ UNCHANGED <<pulled, awaiting, first_after_resume, outcome>>
       \/ /\ \E e \in ReadErrors : Raise(e)
          /\ UNCHANGED <<pulled, awaiting, first_after_resume, outcome>>
    /\ UNCHANGED <<kl_pc, _active, _disp_lock, _alert_msg, _recgrps,
                   _recgrp_output_str, _receiver, _mmpmon_subprocess, screen,
                   keys, terminate_calls, frames, cleanup, stdout>>
    /\ UNCHANGED <<fvars, pvars>>

CheckActive_Inverted ==
    /\ main_pc = "check_active"
    /\ IF ~_active
       THEN main_pc' = "acquire" /\ UNCHANGED outcome
       ELSE main_pc' = "read" /\ outcome' = "dropped_paused"
    /\ UNCHANGED <<kl_pc, _active, _disp_lock, _alert_msg, _recgrps,
                   _recgrp_output_str, _receiver, _mmpmon_subprocess, screen,
                   pulled, exc, keys, terminate_calls, frames, cleanup,
                   stdout, awaiting, first_after_resume>>
    /\ UNCHANGED <<fvars, pvars>>

\* the left operand of "if self._active and self._disp_lock.acquire(False)":
\* when paused the group is dropped and the loop goes on to the next one
CheckActive ==
    /\ main_pc = "check_active"
    /\ IF _active
       THEN main_pc' = "acquire" /\ UNCHANGED outcome
       ELSE main_pc' = "read" /\ outcome' = "dropped_paused"
    /\ UNCHANGED <<kl_pc, _active, _disp_lock, _alert_msg, _recgrps,
                   _recgrp_output_str, _receiver, _mmpmon_subprocess, screen,
                   pulled, exc, keys, terminate_calls, frames, cleanup,
                   stdout, awaiting, first_after_resume>>
    /\ UNCHANGED <<fvars, pvars>>

\* the lock is taken whether or not the key listener holds it
Acquire_Unlocked ==
    /\ main_pc = "acquire"
    /\ _disp_lock' = "main"
    /\ main_pc' = "format"
    /\ UNCHANGED outcome
    /\ UNCHANGED <<kl_pc, _active, _alert_msg, _recgrps, _recgrp_output_str,
                   _receiver, _mmpmon_subprocess, screen, pulled, exc, keys,
                   terminate_calls, frames, cleanup, stdout, awaiting,
                   first_after_resume>>
    /\ UNCHANGED <<fvars, pvars>>

\* the right operand: self._disp_lock.acquire(False) does not wait; when the
\* lock is taken the group is dropped
Acquire ==
    /\ main_pc = "acquire"
    /\ IF _disp_lock = "free"
       THEN /\ _disp_lock' = "main"
            /\ main_pc' = "format"
            /\ UNCHANGED outcome
       ELSE /\ main_pc' = "read"
            /\ outcome' = "dropped_locked"
            /\ UNCHANGED _disp_lock
    /\ UNCHANGED <<kl_pc, _active, _alert_msg, _recgrps, _recgrp_output_str,
                   _receiver, _mmpmon_subprocess, screen, pulled, exc, keys,
                   terminate_calls, frames, cleanup, stdout, awaiting,
                   first_after_resume>>
    /\ UNCHANGED <<fvars, pvars>>

Format_Once ==
    /\ main_pc = "format"
    /\ \/ /\ _recgrp_output_str' =
                 IF _recgrp_output_str = 0 THEN pulled ELSE _recgrp_output_str
          /\ main_pc' = "write" /\ exc' = exc
       \/ /\ Raise("FormatError")
          /\ UNCHANGED _recgrp_output_str
    /\ UNCHANGED <<kl_pc, _active, _disp_lock, _alert_msg, _recgrps,
                   _receiver, _mmpmon_subprocess, screen, pulled, keys,
                   terminate_calls, frames, cleanup, stdout, awaiting,
                   first_after_resume, outcome>>
    /\ UNCHANGED <<fvars, pvars>>

\* self._recgrp_output_str = self._format_output(recgrp)
Format ==
    /\ main_pc = "format"
    /\ \/ /\ _recgrp_output_str' = pulled
          /\ main_pc' = "write" /\ exc' = exc
       \/ /\ Raise("FormatError")
          /\ UNCHANGED _recgrp_output_str
    /\ UNCHANGED <<kl_pc, _active, _disp_lock, _alert_msg, _recgrps,
                   _receiver, _mmpmon_subprocess, screen, pulled, keys,
                   terminate_calls, frames, cleanup, stdout, awaiting,
                   first_after_resume, outcome>>
    /\ UNCHANGED <<fvars, pvars>>

\* self._write(self._recgrp_output_str): erase and refresh are outside the
\* try of _write and may raise curses.error
Write ==
    /\ main_pc = "write"
    /\ \/ /\ screen' = WriteWindow(_recgrp_output_str)
          /\ frames' = Append(frames, [grp |-> _recgrp_output_str,
                                       latest |-> pulled,
                                       active |-> _active])
          /\ outcome' = "rendered"
          /\ main_pc' = "release" /\ exc' = exc
       \/ /\ Raise("curses.error")
          /\ UNCHANGED <<screen, frames, outcome>>
    /\ UNCHANGED <<kl_pc, _active, _disp_lock, _alert_msg, _recgrps,
                   _recgrp_output_str, _receiver, _mmpmon_subprocess, pulled,
                   keys, terminate_calls, cleanup, stdout, awaiting,
                   first_after_resume>>
    /\ UNCHANGED <<fvars, pvars>>

\* the main thread goes on to its next pull without releasing the lock
Release_KeepsLock ==
    /\ main_pc = "release"
    /\ _disp_lock' = _disp_lock
    /\ main_pc' = "read"
    /\ UNCHANGED <<kl_pc, _active, _alert_msg, _recgrps, _recgrp_output_str,
                   _receiver, _mmpmon_subprocess, screen, pulled, exc, keys,
                   terminate_calls, frames, cleanup, stdout, awaiting,
                   first_after_resume, outcome>>
    /\ UNCHANGED <<fvars, pvars>>

\* self._disp_lock.release()
Release ==
    /\ main_pc = "release"
    /\ _disp_lock' = "free"
    /\ main_pc' = "read"
    /\ UNCHANGED <<kl_pc, _active, _alert_msg, _recgrps, _recgrp_output_str,
                   _receiver, _mmpmon_subprocess, screen, pulled, exc, keys,
                   terminate_calls, frames, cleanup, stdout, awaiting,
                   first_after_resume, outcome>>
    /\ UNCHANGED <<fvars, pvars>>

\* time.sleep(params.MONITORING_INTERVAL_SECS) after the loop; the try block
\* ends
Sleep ==
    /\ main_pc = "sleep"
    /\ main_pc' = "endwin"
    /\ UNCHANGED <<kl_pc, _active, _disp_lock, _alert_msg, _recgrps,
                   _recgrp_output_str, _receiver, _mmpmon_subprocess, screen,
                   pulled, exc, keys, terminate_calls, frames, cleanup,
                   stdout, awaiting, first_after_resume, outcome>>
    /\ UNCHANGED <<fvars, pvars>>

\* KeyboardInterrupt is raised in the main thread, between any two steps of
\* the try block; a with block releases its lock on the way out
Interrupt ==
    /\ main_pc \in TryBlock
    /\ Raise("KeyboardInterrupt")
    /\ _disp_lock' = IF main_pc \in WithBlock THEN "free" ELSE _disp_lock
    /\ UNCHANGED <<kl_pc, _active, _alert_msg, _recgrps, _recgrp_output_str,
                   _receiver, _mmpmon_subprocess, screen, pulled, keys,
                   terminate_calls, frames, cleanup, stdout, awaiting,
                   first_after_resume, outcome>>
    /\ UNCHANGED <<fvars, pvars>>

\* finally: try: curses.endwin() except curses.error: pass
Endwin ==
    /\ main_pc = "endwin"
    /\ \E step \in {"endwin", "endwin_error"} :
           cleanup' = Append(cleanup, step)
    /\ main_pc' = "close"
    /\ UNCHANGED <<kl_pc, _active, _disp_lock, _alert_msg, _recgrps,
                   _recgrp_output_str, _receiver, _mmpmon_subprocess, screen,
                   pulled, exc, keys, terminate_calls, frames, stdout,
                   awaiting, first_after_resume, outcome>>
    /\ UNCHANGED <<fvars, pvars>>

\* self._recgrps.close() reaches Receiver.close() and terminate() when the
\* three attributes exist; a missing one raises AttributeError, which
\* Receiver.close or the finally block swallows
Terminates ==
    _recgrps = "set" /\ _receiver = "set" /\ _mmpmon_subprocess # "unset"

Close_OnlyWithoutException ==
    /\ main_pc = "close"
    /\ cleanup' = Append(cleanup, "close")
    /\ IF Terminates /\ exc = ""
       THEN /\ terminate_calls' = terminate_calls + 1
            /\ _mmpmon_subprocess' = "terminated"
       ELSE UNCHANGED <<terminate_calls, _mmpmon_subprocess>>
    /\ main_pc' = "print"
    /\ UNCHANGED <<kl_pc, _active, _disp_lock, _alert_msg, _recgrps,
                   _recgrp_output_str, _receiver, screen, pulled, exc, keys,
                   frames, stdout, awaiting, first_after_resume, outcome>>
    /\ UNCHANGED <<fvars, pvars>>

\* finally: try: self._recgrps.close() except AttributeError: pass
Close ==
    /\ main_pc = "close"
    /\ cleanup' = Append(cleanup, "close")
    /\ IF Terminates
       THEN /\ terminate_calls' = terminate_calls + 1
            /\ _mmpmon_subprocess' = "terminated"
       ELSE UNCHANGED <<terminate_calls, _mmpmon_subprocess>>
    /\ main_pc' = "print"
    /\ UNCHANGED <<kl_pc, _active, _disp_lock, _alert_msg, _recgrps,
                   _recgrp_output_str, _receiver, screen, pulled, exc, keys,
                   frames, stdout, awaiting, first_after_resume, outcome>>
    /\ UNCHANGED <<fvars, pvars>>

\* finally: if params.PRINT_LAST_RECORD: try: print(self._recgrp_output_str)
\* except AttributeError: pass
PrintLast ==
    /\ main_pc = "print"
    /\ IF PRINT_LAST_RECORD /\ _recgrp_output_str # 0
       THEN /\ stdout' = _recgrp_output_str
            /\ cleanup' = Append(cleanup, "print")
       ELSE UNCHANGED <<stdout, cleanup>>
    /\ main_pc' = "done"
    /\ UNCHANGED <<kl_pc, _active, _disp_lock, _alert_msg, _recgrps,
                   _recgrp_output_str, _receiver, _mmpmon_subprocess, screen,
                   pulled, exc, keys, terminate_calls, frames, awaiting,
                   first_after_resume, outcome>>
    /\ UNCHANGED <<fvars, pvars>>

\* _key_listener: getkey returns a key; on the pause key
\* self._active = not self._active, before the lock is taken. The thread is
\* a daemon: it ends with the main thread.
KeyPress ==
    /\ kl_pc = "getkey"
    /\ main_pc # "done"
    /\ keys < MaxKeys
    /\ keys' = keys + 1
    /\ \/ /\ _active' = ~_active
          /\ kl_pc' = "lock"
          /\ awaiting' = ~_active
          /\ first_after_resume' = FALSE
       \/ UNCHANGED <<_active, kl_pc, awaiting, first_after_resume>>
    /\ UNCHANGED <<main_pc, _disp_lock, _alert_msg, _recgrps,
                   _recgrp_output_str, _receiver, _mmpmon_subprocess, screen,
                   pulled, exc, terminate_calls, frames, cleanup, stdout,
                   outcome>>
    /\ UNCHANGED <<fvars, pvars>>

\* _key_listener: "with self._disp_lock" waits for the lock
KlAcquire ==
    /\ kl_pc = "lock"
    /\ main_pc # "done"
    /\ _disp_lock = "free"
    /\ _disp_lock' = "kl"
    /\ kl_pc' = "alert"
    /\ UNCHANGED <<main_pc, _active, _alert_msg, _recgrps,
                   _recgrp_output_str, _receiver, _mmpmon_subprocess, screen,
                   pulled, exc, keys, terminate_calls, frames, cleanup,
                   stdout, awaiting, first_after_resume, outcome>>
    /\ UNCHANGED <<fvars, pvars>>

\* Display._del_alert on the window: with an alert stored, delch removes
\* len(alert) + 3 characters of row 1, the overlay when it is there and
\* characters of a frame otherwise
DelAlert(window, alert_msg) ==
    IF alert_msg = "" THEN window
    ELSE IF window.overlay THEN [window EXCEPT !.overlay = FALSE]
    ELSE [window EXCEPT !.damaged = (window.content > 0)]

\* Display._ins_alert on the window: the previous alert is deleted, then the
\* alert is inserted in row 1
InsAlert(window, alert_msg) ==
    [DelAlert(window, alert_msg) EXCEPT !.overlay = TRUE]

\* _key_listener under the lock: self._ins_alert(alert) when the display is
\* now paused, self._del_alert() when it is active again
KlAlert ==
    /\ kl_pc = "alert"
    /\ main_pc # "done"
    /\ IF ~_active
       THEN screen' = InsAlert(screen, _alert_msg) /\ _alert_msg' = "paused"
       ELSE screen' = DelAlert(screen, _alert_msg) /\ _alert_msg' = ""
    /\ kl_pc' = "release"
    /\ UNCHANGED <<main_pc, _active, _disp_lock, _recgrps,
                   _recgrp_output_str, _receiver, _mmpmon_subprocess, pulled,
                   exc, keys, terminate_calls, frames, cleanup, stdout,
                   awaiting, first_after_resume, outcome>>
    /\ UNCHANGED <<fvars, pvars>>

\* the end of the with block of _key_listener
KlRelease ==
    /\ kl_pc = "release"
    /\ main_pc # "done"
    /\ _disp_lock' = "free"
    /\ kl_pc' = "getkey"
    /\ UNCHANGED <<main_pc, _active, _alert_msg, _recgrps,
                   _recgrp_output_str, _receiver, _mmpmon_subprocess, screen,
                   pulled, exc, keys, terminate_calls, frames, cleanup,
                   stdout, awaiting, first_after_resume, outcome>>
    /\ UNCHANGED <<fvars, pvars>>

Next ==
    \/ IsATty \/ InitCurses \/ StatusAcquire \/ StatusWrite \/ StatusRelease
    \/ NewIterator \/ PullStart \/ Discover \/ Launch \/ Read
    \/ CheckActive \/ Acquire \/ Format \/ Write \/ Release \/ Sleep
    \/ Interrupt \/ Endwin \/ Close \/ PrintLast
    \/ KeyPress \/ KlAcquire \/ KlAlert \/ KlRelease

Spec == Init /\ [][Next]_vars

(***************************************************************************)
(* Properties of the display loop and of its cleanup.                      *)
(***************************************************************************)
\* the sampling subprocess was started
Launched == _mmpmon_subprocess # "unset"

\* an exception raised after the subprocess was started: by the writes to
\* its stdin, by the generators that parse and group its lines, or by the
\* display loop
FailureAfterLaunch ==
    exc \in {"IOError", "KeyboardInterrupt", "FormatError", "curses.error"}
            \cup ReadErrors

\* C6: a failure at any point after the sampling subprocess was launched
\* ends with exactly one call of terminate() on it: never none, never more
\* than one.
C6_ExactlyOneTermination ==
    /\ terminate_calls <= 1
    /\ (main_pc = "done" /\ Launched /\ FailureAfterLaunch) =>
           terminate_calls = 1

\* the program ended on a failure of the parser after the launch, and the
\* subprocess was terminated once
C6_Witness ==
    /\ main_pc = "done" /\ Launched
    /\ exc = "KeyError"
    /\ terminate_calls = 1

\* C7 as stated: no frame is written to the terminal while the display is
\* paused.
C7_NoFrameWhilePaused ==
    \A i \in 1..Len(frames) : frames[i].active

\* C8 as stated: after a resume, the first RecordGroupDelta the main loop
\* pulls (with no key pressed since) is not dropped.
C8_NextGroupRendered ==
    first_after_resume => outcome \notin {"dropped_paused", "dropped_locked"}

\* C8 amended: after a resume, the first RecordGroupDelta the main loop pulls
\* (with no pause key since) is never dropped for the display being paused;
\* it is dropped only when the non-blocking acquire finds the display lock
\* taken, and it is rendered once the acquire succeeds and the write returns.
C8_NextGroupRenderedUnlessLocked ==
    /\ first_after_resume => outcome # "dropped_paused"
    /\ (first_after_resume /\ main_pc \in {"check_active", "acquire"}) =>
           _active
    /\ (first_after_resume /\ main_pc = "release") => outcome = "rendered"

\* the first group pulled after a resume was rendered
C8_Witness ==
    /\ first_after_resume
    /\ outcome = "rendered"
    /\ frames # <<>> /\ frames[Len(frames)].grp = pulled

\* the stored frame, the window, the frames written, the groups pulled and
\* the display lock
Stored == <<_recgrp_output_str, screen, frames, pulled, _disp_lock>>

\* the main thread leaves the if statement of _write_recs without having
\* taken the lock and without an exception
Drops ==
    /\ main_pc \in {"check_active", "acquire"}
    /\ main_pc' \notin {main_pc, "acquire", "format", "endwin"}

\* C9: while the display is paused the group just pulled is discarded: the
\* main loop goes straight on to its next pull, and a dropped group is not
\* stored (the stored frame, the window, the frames written and the lock do
\* not change); every frame written is built from the group pulled last,
\* and the frames written are in strictly increasing order of groups.
C9_LatestWins ==
    /\ [](/\ \A i \in 1..Len(frames) : frames[i].grp = frames[i].latest
          /\ \A i, j \in 1..Len(frames) :
                 i < j => frames[i].grp < frames[j].grp
          /\ _recgrp_output_str <= pulled)
    /\ [][Drops => (main_pc' = "read" /\ UNCHANGED Stored)]_vars
    /\ [][(main_pc = "check_active" /\ ~_active /\ main_pc' # main_pc) =>
              (main_pc' \in {"read", "endwin"} /\ UNCHANGED Stored)]_vars

\* a group was dropped while paused and a later group was written after the
\* resume
C9_Witness ==
    /\ Len(frames) >= 2
    /\ frames[Len(frames)].grp > frames[Len(frames) - 1].grp + 1
    /\ frames[Len(frames)].grp = pulled
    /\ first_after_resume

\* C10 as stated: on every way out of the try block the cleanup releases the
\* terminal, then closes the transport, then prints the last frame only if a
\* frame was written to the terminal.
C10_CleanupOrder ==
    (main_pc = "done" /\ exc # "TTYError") =>
        /\ Len(cleanup) \in {2, 3}
        /\ cleanup[1] \in {"endwin", "endwin_error"}
        /\ cleanup[2] = "close"
        /\ Len(cleanup) = 3 =>
               /\ cleanup[3] = "print"
               /\ frames # <<>>
               /\ stdout = frames[Len(frames)].grp

\* Display._init_curses has returned: curses.initscr() put the terminal
\* under full-screen control and the key listener was started
CursesInitialised == kl_pc # "off"

\* C11 as stated: an ArgumentError of the node-set discovery is raised before
\* any display is attempted: the terminal is not under full-screen control
\* and nothing, the initial status included, has been written to it.
C11_ArgumentErrorBeforeDisplay ==
    exc = "ArgumentError" =>
        /\ ~CursesInitialised
        /\ screen.content = 0

\* C12 as stated: a failure to start an external command (the node-list
\* command or the sampling command), or its non-zero exit, is reported as a
\* SubprocessError: it never leaves the program as the raw error of the
\* operating system.
C12_LaunchFailureIsSubprocessError == exc \notin LaunchFailures

(***************************************************************************)
(* The order of the shares of _mmfa_ipf.                                   *)
(***************************************************************************)
Min(a, b) == IF a <= b THEN a ELSE b

\* what the tables hold once every table has been served up to level rows
ServedUpTo(d, level) == SumSeq([k \in 1..Len(d) |-> Min(d[k], level)])

\* the number of complete rounds of a round-robin that grants one row per
\* table and round: the highest level the supply pays for
FullRounds(avail, d) ==
    CHOOSE level \in 0..avail :
        /\ ServedUpTo(d, level) <= avail
        /\ \A l \in 0..avail : ServedUpTo(d, l) <= avail => l <= level

\* the place of table i among the tables that still want a row after the
\* complete rounds, in descending order of demand
PlaceAmongUnmet(d, level, i) ==
    Cardinality({j \in 1..Len(d) :
                    d[j] > level /\ PairBefore(d[j], j, d[i], i)}) + 1

\* the share of table i under the round-robin: one row per complete round
\* up to its demand, and one more row in the last, incomplete round when the
\* rows left over reach its place
RoundRobinShare(avail, d, i) ==
    LET level == FullRounds(avail, d)
        left == avail - ServedUpTo(d, level)
    IN  Min(d[i], level) +
        (IF d[i] > level /\ PlaceAmongUnmet(d, level, i) <= left
         THEN 1 ELSE 0)

\* C16: for every supply >= 0 and every non-empty tuple of demands the
\* shares are returned in the order of the demands given: the value at
\* position i is what a one-row-at-a-time round-robin over the demands in
\* descending order grants to the table whose demand is at position i.
C16_SharesInInputOrder ==
    (fpc = "done" /\ Len(demands) > 0) =>
        /\ shares.raised = ""
        /\ Len(shares.value[1]) = Len(demands)
        /\ \A i \in 1..Len(demands) :
               shares.value[1][i] =
                   RoundRobinShare(num_avail_shares, demands, i)

\* demands given in ascending order, and a supply that ends in an incomplete
\* round: the larger demand, given last, holds the extra row
C16_Witness ==
    /\ fpc = "done" /\ Len(demands) = 3
    /\ demands[1] < demands[2] /\ demands[2] < demands[3]
    /\ shares.raised = ""
    /\ shares.value[1][1] < shares.value[1][2]
    /\ shares.value[1][2] < shares.value[1][3]
    /\ shares.value[1][3] < demands[3]

(***************************************************************************)
(* The display lock.                                                       *)
(***************************************************************************)
\* the positions of the main thread between taking the display lock and
\* releasing it, in _write_initial_status and in _write_recs
MainHolds == {"status_write", "status_release", "format", "write", "release"}

\* the positions of the key listener inside its "with self._disp_lock"
ListenerHolds == {"alert", "release"}

\* the main thread writes the initial status or a frame to the window
MainWrites ==
    /\ main_pc \in {"status_write", "write"}
    /\ screen' # screen \/ frames' # frames

\* the key listener inserts or deletes the overlay
ListenerWrites == kl_pc = "alert" /\ kl_pc' # kl_pc

\* C17: the writes of the two threads to the terminal never overlap: the
\* main thread writes the initial status and the frames, and the key
\* listener inserts and deletes the overlay, only while holding the display
\* lock, and at most one thread holds the lock at a time.
C17_WritesUnderLock ==
    /\ [](/\ main_pc \in MainHolds => _disp_lock = "main"
          /\ kl_pc \in ListenerHolds => _disp_lock = "kl"
          /\ ~(main_pc \in MainHolds /\ kl_pc \in ListenerHolds))
    /\ [][MainWrites =>
              (_disp_lock = "main" /\ kl_pc \notin ListenerHolds)]_vars
    /\ [][ListenerWrites =>
              (_disp_lock = "kl" /\ main_pc \notin MainHolds)]_vars
    /\ [][(screen' # screen) => (MainWrites \/ ListenerWrites)]_vars

\* the main thread has written a frame under the lock while the key
\* listener, after a pause key, waits for the lock
C17_Witness ==
    /\ main_pc = "release" /\ _disp_lock = "main"
    /\ kl_pc = "lock"
    /\ frames # <<>> /\ screen.content = pulled

\* C18 as stated: on a pause key the key listener first takes the display
\* lock and only then flips the active flag: the flag never changes while
\* the key listener does not hold the lock.
C18_FlagFlippedUnderLock ==
    [][(_active' # _active) => _disp_lock = "kl"]_vars

(***************************************************************************)
(* SpecNodeSeq: Receiver.node_seq, the discovery of the nodes of the       *)
(* node-set from the output of mmlsnode.                                   *)
(***************************************************************************)
\* the output of mmlsnode has at most MaxListing pieces between newlines
MaxListing == 5

\* A piece of the output is the sequence of its whitespace-separated
\* tokens. A node-set line is the name of the node-set and its nodes.
NodesetLines == {<<"set1", "n2", "n1">>, <<"set2", "n1">>, <<"set1", "n2">>}

\* the other pieces: a header line, and the empty piece that split leaves
\* after the last newline
OtherPieces == {<<"GPFS", "nodeset", "Node", "list">>, <<>>}

\* the values of params.GPFS_NODESET: None (""), and names of node-sets
NodesetParams == {"", "set1", "set2", "set3"}

\* output.split(b'\n') of every output: at least one piece; the pieces that
\* the slice keeps are node-set lines
Listings ==
    UNION {{q \in [1..n -> NodesetLines \cup OtherPieces] :
               \A k \in 3..(n - 1) : q[k] \in NodesetLines} :
           n \in 1..MaxListing}

\* the order of str, which list.sort() uses, on the node names
NodeRank(node) == CASE node = "n1" -> 1 [] node = "n2" -> 2

\* node_seq.sort()
SortNodes(q) ==
    CHOOSE s \in [1..Len(q) -> Nodes] :
        /\ \A n \in Nodes :
               Cardinality({k \in 1..Len(q) : q[k] = n}) =
                   Cardinality({k \in 1..Len(s) : s[k] = n})
        /\ \A a, b \in 1..Len(s) : a < b => NodeRank(s[a]) <= NodeRank(s[b])

\* the slice keeps the last piece
Slice2ToLast_KeepsLast(output) ==
    IF Len(output) < 3 THEN <<>> ELSE SubSeq(output, 3, Len(output))

\* output.split(b'\n')[2:-1]
Slice2ToLast(output) ==
    IF Len(output) < 4 THEN <<>> ELSE SubSeq(output, 3, Len(output) - 1)

\* the for loop of node_seq from line i on: "node_set, node_seq =
\* line.split(None, 1)" raises ValueError on a line of fewer than two
\* tokens; the first line of the node-set (of any node-set when none is
\* asked for) returns its nodes, sorted; the else clause of the loop raises
\* ArgumentError
RECURSIVE node_seq_from(_, _, _)
node_seq_from(output, nodeset, i) ==
    IF i > Len(output) THEN Raised("ArgumentError")
    ELSE IF Len(output[i]) < 2 THEN Raised("ValueError")
    ELSE IF nodeset = "" \/ output[i][1] = nodeset
         THEN Returned(SortNodes(Tail(output[i])))
    ELSE node_seq_from(output, nodeset, i + 1)

\* Receiver.node_seq on the output of check_output
node_seq(output, nodeset) == node_seq_from(Slice2ToLast(output), nodeset, 1)

InitNodeSeq ==
    /\ mmlsnode_output \in Listings
    /\ GPFS_NODESET \in NodesetParams
    /\ _node_seq = NotCalled
    /\ rpc = "idle" /\ mmpmon_stdin = <<>> /\ stdin_closed = FALSE
    /\ lines = <<>> /\ count = 0 /\ held = <<>>
    /\ parsed = <<>> /\ events = <<>> /\ groups = <<>> /\ rexc = ""
    /\ deltas = <<>>
    /\ rec_new = <<>> /\ rec_old = <<>> /\ rec_delta = NotCalled
    /\ grp_new = <<>> /\ grp_old = <<>> /\ grp_delta = NotCalled
    /\ num_avail_shares = 0 /\ demands = <<>> /\ shares = NotCalled
    /\ fpc = "ready"
    /\ TablesIdle
    /\ DisplayIdle

\* self.node_seq, first read: check_output returns the output of mmlsnode,
\* or raises and the except clause raises SubprocessError
CallNodeSeq ==
    /\ fpc = "ready"
    /\ \/ _node_seq' = node_seq(mmlsnode_output, GPFS_NODESET)
       \/ \E cause \in LaunchFailures :
              _node_seq' = Raised(node_seq_except(cause))
    /\ fpc' = "done"
    /\ UNCHANGED <<rec_new, rec_old, rec_delta, grp_new, grp_old, grp_delta,
                   num_avail_shares, demands, shares>>
    /\ UNCHANGED <<mmlsnode_output, GPFS_NODESET, rpc, mmpmon_stdin,
                   stdin_closed, lines, count, held, parsed, events, groups,
                   deltas,
                   rexc>>
    /\ UNCHANGED <<tvars, dvars>>

NextNodeSeq == CallNodeSeq

SpecNodeSeq == InitNodeSeq /\ [][NextNodeSeq]_vars

\* the positions of the lines of the listing proper: after the two header
\* lines and before the footer line
ListedAt == 3..(Len(mmlsnode_output) - 1)

\* the lines that answer the request: those of the requested node-set, or
\* all of them when no node-set is requested
Answering ==
    {k \in ListedAt :
        GPFS_NODESET = "" \/ mmlsnode_output[k][1] = GPFS_NODESET}

\* the sequence holds exactly the nodes of the line
HoldsNodesOf(q, line) ==
    /\ Len(q) = Len(line) - 1
    /\ {q[k] : k \in 1..Len(q)} = {line[k] : k \in 2..Len(line)}

\* C15: the discovery skips the two header lines and the footer line and
\* returns the nodes of the first line of the requested node-set, or of the
\* first remaining line when no node-set is requested; it raises
\* ArgumentError when no line is of the requested node-set and when the
\* listing has no node-set line at all.
C15_NodeSeqDiscovery ==
    (fpc = "done" /\ _node_seq.raised # "SubprocessError") =>
        IF Answering = {}
        THEN _node_seq = Raised("ArgumentError")
        ELSE LET first == CHOOSE k \in Answering :
                              \A j \in Answering : k <= j
             IN  /\ _node_seq.raised = ""
                 /\ HoldsNodesOf(_node_seq.value[1], mmlsnode_output[first])

\* the requested node-set is on the second line of the listing and also in
\* the place of the footer: the nodes of the second line are returned
C15_Witness ==
    /\ fpc = "done" /\ GPFS_NODESET = "set1"
    /\ Len(mmlsnode_output) = 5
    /\ mmlsnode_output[1] = <<"set1", "n2">>
    /\ mmlsnode_output[3] = <<"set2", "n1">>
    /\ mmlsnode_output[4] = <<"set1", "n2", "n1">>
    /\ mmlsnode_output[5] = <<"set1", "n2">>
    /\ _node_seq = Returned(<<"n1", "n2">>)

\* no line of the listing is of the requested node-set
C15_WitnessNotListed ==
    /\ fpc = "done" /\ GPFS_NODESET = "set3"
    /\ Len(mmlsnode_output) = 5
    /\ _node_seq = Raised("ArgumentError")

(***************************************************************************)
(* SpecReceiver: the generators of the Receiver, from the start of mmpmon  *)
(* to the RecordGroups.                                                    *)
(***************************************************************************)
\* at most MaxLines lines are read from the stdout of mmpmon
MaxLines == 5

\* A line of mmpmon after decode().rstrip(), as record.split() returns it:
\* the sequence of its tokens. An fs_io_s line of a node with its return
\* code:
FsIoSLine(nn, rc) ==
    <<"_fs_io_s_", "_nn_", nn, "_rc_", rc, "_t_", "1", "_tu_", "0",
      "_fs_", "gpfs0", "_br_", "1", "_bw_", "0">>

\* the nlist line with the key c, an nlist line without it, the answer to
\* an "nlist add" directive
MarkerLine == <<"_nlist_", "_rc_", "0", "_c_", "1">>
NlistLine == <<"_nlist_", "_rc_", "0">>
OtherLine == <<"_mmpmon::nlist::add_", "_rc_", "0">>

\* lines that break the protocol: an fs_io_s line that ends in a key
\* without its value, and an fs_io_s line without the key rc
DanglingLine == FsIoSLine("n1", "0") \o <<"_oc_">>
NoRcLine == <<"_fs_io_s_", "_nn_", "n1">>

\* the message of mmpmon that _mmpmon_stdout_processor looks for in the
\* first line
CouldNotConnect ==
    <<"Could", "not", "establish", "connection", "to", "file", "system",
      "daemon.">>

\* an fs_io_s line of the node n1 with a later timestamp and more bytes read
LaterLine ==
    <<"_fs_io_s_", "_nn_", "n1", "_rc_", "0", "_t_", "2", "_tu_", "0",
      "_fs_", "gpfs0", "_br_", "2", "_bw_", "0">>

LineKinds ==
    {FsIoSLine("n1", "0"), FsIoSLine("n2", "0"), FsIoSLine("n1", "1"),
     MarkerLine, NlistLine, OtherLine, DanglingLine, NoRcLine}

\* token[1:-1] on the tokens that stand first in a line or in a pair
Strip(token) ==
    CASE token = "_fs_io_s_" -> "fs_io_s"
      [] token = "_nlist_" -> "nlist"
      [] token = "_mmpmon::nlist::add_" -> "mmpmon::nlist::add"
      [] token = "_nn_" -> "nn"
      [] token = "_rc_" -> "rc"
      [] token = "_t_" -> "t"
      [] token = "_tu_" -> "tu"
      [] token = "_fs_" -> "fs"
      [] token = "_br_" -> "br"
      [] token = "_bw_" -> "bw"
      [] token = "_oc_" -> "oc"
      [] token = "_c_" -> "c"

\* int(value) on the values of the lines
IntOf(value) ==
    CASE value = "0" -> 0
      [] value = "1" -> 1
      [] value = "2" -> 2

\* common.grouper(n, iterable): zip(*[iter(iterable)] * n), which stops at
\* the first tuple that it cannot fill
grouper(n, iterable) ==
    [k \in 1..(Len(iterable) \div n) |->
        SubSeq(iterable, n * (k - 1) + 1, n * k)]

\* {k[1:-1]: v for k, v in pairs}: the value of a key is the one of its last
\* pair; unpacking a tuple that is not a pair raises ValueError
DictOf(pairs) ==
    IF \E k \in 1..Len(pairs) : Len(pairs[k]) # 2 THEN Raised("ValueError")
    ELSE Returned(
        [key \in {Strip(pairs[k][1]) : k \in 1..Len(pairs)} |->
            LET last == CHOOSE k \in 1..Len(pairs) :
                            /\ Strip(pairs[k][1]) = key
                            /\ \A j \in 1..Len(pairs) :
                                   Strip(pairs[j][1]) = key => j <= k
            IN  pairs[last][2]])

\* the body of the loop of _record_processor on one line: record[0] raises
\* IndexError on a line without tokens
record_processor(record) ==
    IF Len(record) = 0 THEN Raised("IndexError")
    ELSE LET properties == DictOf(grouper(2, Tail(record)))
         IN  IF properties.raised # "" THEN properties
             ELSE Returned([type |-> Strip(record[1]),
                            properties |-> properties.value[1]])

\* the keys that Record._process reads (Record._filter_in_keys without gn,
\* which the filter adds)
FilterInKeys == {"nn", "t", "tu", "fs", "br", "bw"}

\* Record(record) on the properties of an event: KeyError when a key is
\* missing; ts = t + tu/1000000, where tu is 0 in every line drawn here
RecordOf(properties) ==
    IF ~(FilterInKeys \subseteq DOMAIN properties) THEN Raised("KeyError")
    ELSE Returned(Record(properties["nn"], properties["fs"],
                         IntOf(properties["t"]) +
                             IntOf(properties["tu"]) \div 1000000,
                         IntOf(properties["br"]), IntOf(properties["bw"])))

\* the order of the sort key (r.nn, r.fs)
FsRank(fs) == CASE fs = "gpfs0" -> 1 [] fs = "gpfs1" -> 2
SortKeyLE(a, b) ==
    \/ NodeRank(a.nn) < NodeRank(b.nn)
    \/ a.nn = b.nn /\ FsRank(a.fs) <= FsRank(b.fs)

\* record_group.sort(key = lambda r: (r.nn, r.fs)): a stable sort
RECURSIVE InsertByKey(_, _)
InsertByKey(sorted, r) ==
    IF sorted = <<>> THEN <<r>>
    ELSE IF SortKeyLE(sorted[Len(sorted)], r) THEN Append(sorted, r)
    ELSE Append(InsertByKey(SubSeq(sorted, 1, Len(sorted) - 1), r),
                sorted[Len(sorted)])

RECURSIVE SortByKey(_)
SortByKey(recs) ==
    IF recs = <<>> THEN <<>>
    ELSE InsertByKey(SortByKey(SubSeq(recs, 1, Len(recs) - 1)),
                     recs[Len(recs)])

\* what _fsios_record_grouper yields for the records that groupby held, and
\* RecordGroup(record_group): gn is deleted from the records, the records
\* are sorted; epoch is the key of groupby, kept for the properties
GroupOf(held_recs) ==
    [epoch |-> held_recs[1].gn,
     group |-> RecordGroup(SortByKey(
                   [k \in 1..Len(held_recs) |-> held_recs[k].rec]))]

\* the return code of an fs_io_s record is not looked at
FilterBranch_AnyRc(r) ==
    IF r.type = "fs_io_s"
    THEN IF "rc" \notin DOMAIN r.properties THEN "KeyError" ELSE "yield"
    ELSE IF r.type = "nlist" /\ "c" \in DOMAIN r.properties THEN "count"
    ELSE "skip"

\* the branch of the if statement of _fsios_record_filter that a record
\* takes
FilterBranch(r) ==
    IF r.type = "fs_io_s"
    THEN IF "rc" \notin DOMAIN r.properties THEN "KeyError"
         ELSE IF r.properties["rc"] = "0" THEN "yield" ELSE "skip"
    ELSE IF r.type = "nlist" /\ "c" \in DOMAIN r.properties THEN "count"
    ELSE "skip"

\* the directive fs_io_s is chained before the nlist directives
mmpmon_inputs_FsIoSFirst(nodes) ==
    [k \in 1..(Len(nodes) + 1) |->
        IF k = 1 THEN <<"fs_io_s">>
        ELSE <<"nlist", "add", nodes[k - 1]>>]

\* the directives of _mmpmon_caller: 'nlist add {}'.format(node) for each
\* node of node_seq, chained with ('fs_io_s',)
mmpmon_inputs(nodes) ==
    [k \in 1..(Len(nodes) + 1) |->
        IF k <= Len(nodes) THEN <<"nlist", "add", nodes[k]>>
        ELSE <<"fs_io_s">>]

\* what self.node_seq gives _mmpmon_caller
NodeSeqResults ==
    {node_seq(output, nodeset) : output \in Listings,
                                 nodeset \in NodesetParams}

\* every record ends the group that groupby holds
SameGroup_Never(held_recs, gn) == held_recs = <<>>

\* itertools.groupby(fsios_records, lambda r: r.gn): the record of the key
\* gn goes to the group that groupby holds
SameGroup(held_recs, gn) == held_recs = <<>> \/ held_recs[1].gn = gn

\* zip(a, b), which stops with the shorter of the two
zip(a, b) == [k \in 1..Min(Len(a), Len(b)) |-> <<a[k], b[k]>>]

\* the second iterator is not advanced: next(b, None) is left out
pairwise_NoAdvance(iterable) == zip(iterable, iterable)

\* common.pairwise: a, b = itertools.tee(iterable); next(b, None);
\* zip(a, b)
pairwise(iterable) ==
    zip(iterable, IF iterable = <<>> THEN <<>> ELSE Tail(iterable))

\* The body of the loop of RecordGroupDeltaIterator.__iter__ for one pair:
\* rec_grp_delta is rec_grp_curr - rec_grp_prev, whose exception leaves the
\* generator; else the delta is yielded. The result is what was raised and
\* the deltas yielded so far.
loop_body(pair, rec_grp_delta, at, by) ==
    IF rec_grp_delta.raised # ""
    THEN [raised |-> rec_grp_delta.raised, deltas |-> deltas]
    ELSE [raised |-> "",
          deltas |-> Append(deltas,
                            [rec_grp_prev |-> pair[1],
                             rec_grp_curr |-> pair[2],
                             rec_grp_delta |-> rec_grp_delta.value[1],
                             at |-> at, by |-> by])]

\* RecordGroupDeltaIterator.__iter__ once the Receiver has yielded the groups
\* yielded: the turn of the loop for the pair of pairwise that has not had
\* its turn, if there is one.
delta_iterator(yielded, at, by) ==
    LET pairs == pairwise(yielded)
    IN  IF Len(pairs) <= Len(deltas) THEN [raised |-> "", deltas |-> deltas]
        ELSE loop_body(pairs[Len(deltas) + 1],
                       RecordGroupDelta(pairs[Len(deltas) + 1][2].group,
                                        pairs[Len(deltas) + 1][1].group),
                       at, by)

\* the generators on one more line: _record_processor yields its dict,
\* _fsios_record_filter yields the properties with gn = count (count is not
\* bound before the first nlist line with c) or takes the next count,
\* Record(record) is built, groupby adds the Record to the group it holds
\* or, on a new gn, ends that group, which is yielded as a RecordGroup.
\* The result is what was raised and the new values of the variables.
Pipeline(line) ==
    LET now == [raised |-> "", parsed |-> parsed, count |-> count,
                events |-> events, held |-> held, groups |-> groups]
        r == record_processor(line)
    IN  IF r.raised # "" THEN [now EXCEPT !.raised = r.raised]
        ELSE
        LET record == r.value[1]
            read == [now EXCEPT !.parsed = Append(parsed, record)]
            branch == FilterBranch(record)
        IN  IF branch = "KeyError" THEN [read EXCEPT !.raised = "KeyError"]
            ELSE IF branch = "skip" THEN read
            ELSE IF branch = "count" THEN [read EXCEPT !.count = count + 1]
            ELSE IF count = 0
                 THEN [read EXCEPT !.raised = "UnboundLocalError"]
            ELSE
            LET event == [line |-> Len(lines) + 1, gn |-> count,
                          properties |-> record.properties]
                yielded == [read EXCEPT !.events = Append(events, event)]
                rec == RecordOf(record.properties)
            IN  IF rec.raised # "" THEN [yielded EXCEPT !.raised = rec.raised]
                ELSE
                LET entry == [gn |-> count, rec |-> rec.value[1]]
                IN  IF SameGroup(held, count)
                    THEN [yielded EXCEPT !.held = Append(held, entry)]
                    ELSE [yielded EXCEPT
                             !.held = <<entry>>,
                             !.groups = Append(groups, GroupOf(held))]

\* a line is read from the stdout of mmpmon and goes through the generators
\* of the Receiver; a RecordGroup that they yield goes to the loop of
\* RecordGroupDeltaIterator
TakeLine(line) ==
    \E after \in {Pipeline(line)} :
    \E turn \in {IF after.raised # ""
                 THEN [raised |-> after.raised, deltas |-> deltas]
                 ELSE delta_iterator(after.groups, Len(lines) + 1,
                                     "record")} :
        /\ lines' = Append(lines, line)
        /\ parsed' = after.parsed /\ count' = after.count
        /\ events' = after.events /\ held' = after.held
        /\ groups' = after.groups /\ deltas' = turn.deltas
        /\ rexc' = turn.raised
        /\ rpc' = IF turn.raised = "" THEN "lines" ELSE "raised"

InitReceiver ==
    /\ mmlsnode_output = <<>> /\ GPFS_NODESET = "" /\ _node_seq = NotCalled
    /\ rpc = "node_seq" /\ mmpmon_stdin = <<>> /\ stdin_closed = FALSE
    /\ lines = <<>> /\ count = 0 /\ held = <<>>
    /\ parsed = <<>> /\ events = <<>> /\ groups = <<>> /\ rexc = ""
    /\ deltas = <<>>
    /\ FunctionsIdle
    /\ DisplayIdle

\* _mmpmon_caller: "node_seq = ... self.node_seq", which may raise
ReadNodeSeq ==
    /\ rpc = "node_seq"
    /\ \E result \in NodeSeqResults \cup
                     {Raised(node_seq_except(cause)) :
                         cause \in LaunchFailures} :
           /\ _node_seq' = result
           /\ rexc' = result.raised
           /\ rpc' = IF result.raised = "" THEN "popen" ELSE "raised"
    /\ UNCHANGED <<mmlsnode_output, GPFS_NODESET, mmpmon_stdin, stdin_closed,
                   lines, count, held, parsed, events, groups,
                   deltas>>
    /\ UNCHANGED <<fvars, dvars>>

\* _mmpmon_caller: subprocess.Popen(...)
Popen ==
    /\ rpc = "popen"
    /\ \/ rpc' = "write" /\ rexc' = rexc
       \/ rpc' = "raised" /\ rexc' = mmpmon_caller_except("OSError")
    /\ UNCHANGED <<mmlsnode_output, GPFS_NODESET, _node_seq, mmpmon_stdin,
                   stdin_closed, lines, count, held, parsed, events, groups,
                   deltas>>
    /\ UNCHANGED <<fvars, dvars>>

\* _mmpmon_caller: a turn of "for mmpmon_input in mmpmon_inputs", the write
\* of the next directive, which may raise IOError
WriteStdin ==
    /\ rpc = "write"
    /\ Len(mmpmon_stdin) < Len(mmpmon_inputs(_node_seq.value[1]))
    /\ \/ /\ mmpmon_stdin' =
                 Append(mmpmon_stdin,
                        mmpmon_inputs(_node_seq.value[1])
                            [Len(mmpmon_stdin) + 1])
          /\ UNCHANGED <<rpc, rexc>>
       \/ /\ rpc' = "raised" /\ rexc' = "IOError"
          /\ UNCHANGED mmpmon_stdin
    /\ UNCHANGED <<mmlsnode_output, GPFS_NODESET, _node_seq, stdin_closed,
                   lines, count, held, parsed, events, groups,
                   deltas>>
    /\ UNCHANGED <<fvars, dvars>>

\* _mmpmon_caller: self._mmpmon_subprocess.stdin.close(), after the loop
CloseStdin ==
    /\ rpc = "write"
    /\ Len(mmpmon_stdin) = Len(mmpmon_inputs(_node_seq.value[1]))
    /\ stdin_closed' = TRUE
    /\ rpc' = "first_line"
    /\ UNCHANGED <<mmlsnode_output, GPFS_NODESET, _node_seq, mmpmon_stdin,
                   lines, count, held, parsed, events, groups, deltas,
                   rexc>>
    /\ UNCHANGED <<fvars, dvars>>

\* _mmpmon_stdout_processor: "line = next(self._mmpmon_subprocess.stdout)".
\* The message of a refused connection raises SubprocessError; any other
\* line is yielded. At the end of the stream next raises StopIteration
\* inside the generator, which ends it (before Python 3.7) or is turned
\* into RuntimeError (from Python 3.7 on).
ReadFirstLine ==
    /\ rpc = "first_line"
    /\ \/ \E line \in LineKinds : TakeLine(line)
       \/ /\ lines' = <<CouldNotConnect>>
          /\ rpc' = "raised" /\ rexc' = "SubprocessError"
          /\ UNCHANGED <<count, held, parsed, events, groups, deltas>>
       \/ /\ rpc' = "ended"
          /\ UNCHANGED <<lines, count, held, parsed, events, groups,
                         deltas, rexc>>
       \/ /\ rpc' = "raised" /\ rexc' = "RuntimeError"
          /\ UNCHANGED <<lines, count, held, parsed, events, groups,
                         deltas>>
    /\ UNCHANGED <<mmlsnode_output, GPFS_NODESET, _node_seq, mmpmon_stdin,
                   stdin_closed>>
    /\ UNCHANGED <<fvars, dvars>>

\* _mmpmon_stdout_processor: "for line in self._mmpmon_subprocess.stdout",
\* one more line
ReadLine ==
    /\ rpc = "lines"
    /\ Len(lines) < MaxLines
    /\ \E line \in LineKinds : TakeLine(line)
    /\ UNCHANGED <<mmlsnode_output, GPFS_NODESET, _node_seq, mmpmon_stdin,
                   stdin_closed>>
    /\ UNCHANGED <<fvars, dvars>>

\* the group that groupby holds at the end of the stream is not yielded
EndOfStream_DropsHeld ==
    /\ rpc = "lines"
    /\ rpc' = "ended"
    /\ groups' = groups
    /\ held' = <<>>
    /\ UNCHANGED <<lines, count, parsed, events, rexc, deltas>>
    /\ UNCHANGED <<mmlsnode_output, GPFS_NODESET, _node_seq, mmpmon_stdin,
                   stdin_closed>>
    /\ UNCHANGED <<fvars, dvars>>

\* the end of the stream: the generators end, and groupby ends the group
\* it holds, which is yielded as the last RecordGroup and goes to the loop
\* of RecordGroupDeltaIterator
EndOfStream ==
    /\ rpc = "lines"
    /\ \E yielded \in {IF held = <<>> THEN groups
                        ELSE Append(groups, GroupOf(held))} :
       \E turn \in {delta_iterator(yielded, Len(lines), "end")} :
           /\ groups' = yielded
           /\ deltas' = turn.deltas
           /\ rexc' = turn.raised
           /\ rpc' = IF turn.raised = "" THEN "ended" ELSE "raised"
    /\ held' = <<>>
    /\ UNCHANGED <<lines, count, parsed, events>>
    /\ UNCHANGED <<mmlsnode_output, GPFS_NODESET, _node_seq, mmpmon_stdin,
                   stdin_closed>>
    /\ UNCHANGED <<fvars, dvars>>

NextReceiver ==
    \/ ReadNodeSeq \/ Popen \/ WriteStdin \/ CloseStdin
    \/ ReadFirstLine \/ ReadLine \/ EndOfStream

SpecReceiver == InitReceiver /\ [][NextReceiver]_vars

(***************************************************************************)
(* Properties of the Receiver.                                             *)
(***************************************************************************)
\* the line has a type tag followed by an odd number of tokens
OddAfterTag(line) == Len(line) > 0 /\ (Len(line) - 1) % 2 = 1

\* C13 as stated: a line with an odd number of tokens after the type tag
\* makes the parsing fail, and the failure propagates: the line is the last
\* one read, an exception has left the generators, and no event was
\* produced from the line.
C13_OddLineFails ==
    \A i \in 1..Len(lines) :
        OddAfterTag(lines[i]) =>
            /\ i = Len(lines) /\ rexc # ""
            /\ \A k \in 1..Len(events) : events[k].line # i

\* the directives written so far are the first ones of: "nlist add" of each
\* node in the order of the node list, then fs_io_s
DirectivesInOrder(written, nodes) ==
    /\ Len(written) <= Len(nodes) + 1
    /\ \A k \in 1..Len(written) :
           written[k] = IF k <= Len(nodes)
                        THEN <<"nlist", "add", nodes[k]>>
                        ELSE <<"fs_io_s">>

\* a line was asked of the stdout of mmpmon
ReadingStarted == lines # <<>> \/ rpc \in {"lines", "ended"}

\* C14: the directives written to the stdin of mmpmon are one "nlist add
\* <node>" per node, in the order of the node list, then one "fs_io_s";
\* then stdin is closed; nothing is written after the close, and no line of
\* output is read before the close.
C14_DirectivesThenClose ==
    /\ [](mmpmon_stdin # <<>> =>
              /\ _node_seq.raised = ""
              /\ DirectivesInOrder(mmpmon_stdin, _node_seq.value[1]))
    /\ [](stdin_closed =>
              Len(mmpmon_stdin) = Len(_node_seq.value[1]) + 1)
    /\ [][stdin_closed =>
              (stdin_closed' /\ mmpmon_stdin' = mmpmon_stdin)]_vars
    /\ [](ReadingStarted => stdin_closed)

\* two nodes: both "nlist add" directives and fs_io_s were written, stdin
\* was closed, and lines were read
C14_Witness ==
    /\ stdin_closed
    /\ mmpmon_stdin = <<<<"nlist", "add", "n1">>, <<"nlist", "add", "n2">>,
                        <<"fs_io_s">>>>
    /\ Len(lines) >= 2

\* the token that follows the key in a line, as a sequence of zero or one
\* token
ValueAfter(line, key) ==
    IF \E k \in 2..(Len(line) - 1) : k % 2 = 0 /\ line[k] = key
    THEN <<line[1 + CHOOSE k \in 2..(Len(line) - 1) :
                        k % 2 = 0 /\ line[k] = key]>>
    ELSE <<>>

\* the line is an nlist line with the completion marker
IsCompletionMarker(line) ==
    /\ Len(line) > 0 /\ line[1] = "_nlist_"
    /\ ValueAfter(line, "_c_") # <<>>

\* the number of completion markers among the lines read before line i
MarkersBefore(i) ==
    Cardinality({j \in 1..(i - 1) : IsCompletionMarker(lines[j])})

\* C19: every event that the record filter emits comes from an fs_io_s line
\* with return code 0 and carries as its epoch the number of completion
\* markers read before the line, which is at least 1; a line of another
\* type or with another return code never gives an event, in whatever order
\* the lines come, an fs_io_s line before the first marker included.
C19_FilteredAndStamped ==
    /\ \A k \in 1..Len(events) :
           /\ events[k].line \in 1..Len(lines)
           /\ lines[events[k].line][1] = "_fs_io_s_"
           /\ ValueAfter(lines[events[k].line], "_rc_") = <<"0">>
           /\ events[k].properties["rc"] = "0"
           /\ events[k].gn = MarkersBefore(events[k].line)
           /\ events[k].gn >= 1
    /\ \A j, k \in 1..Len(events) :
           j < k => events[j].line < events[k].line

\* events of the epochs 1 and 2, with a refused fs_io_s line and a line of
\* another type in between
C19_Witness ==
    /\ Len(events) = 2
    /\ events[1].gn = 1 /\ events[2].gn = 2
    /\ \E i \in 1..Len(lines) : lines[i] = FsIoSLine("n1", "1")
    /\ rexc = ""

\* an fs_io_s line with return code 0 read before any completion marker:
\* the filter raises and no event is emitted
C19_EarlyLine ==
    /\ lines = <<FsIoSLine("n1", "0")>>
    /\ rexc = "UnboundLocalError" /\ events = <<>>

\* the events that the filter stamped with the epoch
EventsOf(epoch) == {k \in 1..Len(events) : events[k].gn = epoch}

\* the Record of an event, built from the properties of its line
RecordOfEvent(k) == RecordOf(events[k].properties).value[1]

\* the group holds exactly the Records of the events of its epoch: each of
\* them as many times as it was accepted, and nothing else
HoldsItsEpoch(g) ==
    LET recs == g.group.recs
    IN  /\ Len(recs) = Cardinality(EventsOf(g.epoch))
        /\ \A k \in EventsOf(g.epoch) :
               Cardinality({i \in 1..Len(recs) : recs[i] = RecordOfEvent(k)})
                   = Cardinality({j \in EventsOf(g.epoch) :
                                     RecordOfEvent(j) = RecordOfEvent(k)})

\* the groups yielded for the epoch
GroupsOf(epoch) == {k \in 1..Len(groups) : groups[k].epoch = epoch}

\* the groups are in increasing order of epoch, and each holds exactly the
\* accepted records of its epoch
GroupsInOrderAndExact ==
    /\ \A j, k \in 1..Len(groups) :
           j < k => groups[j].epoch < groups[k].epoch
    /\ \A k \in 1..Len(groups) : HoldsItsEpoch(groups[k])

\* C20 as stated: one RecordGroup is emitted for every epoch, that is for
\* every period between two completion markers, in increasing order of
\* epoch, and it holds exactly the accepted records of the epoch.
C20_OneGroupPerEpoch ==
    /\ GroupsInOrderAndExact
    /\ (rpc = "ended" /\ rexc = "") =>
           \A epoch \in 1..(count - 1) : Cardinality(GroupsOf(epoch)) = 1

\* C20 amended: one RecordGroup is emitted for every epoch in which a record
\* was accepted, and none for an epoch without accepted records; the groups
\* come in increasing order of epoch and each holds exactly the accepted
\* records of its epoch. No record is lost: until the group of its epoch is
\* yielded a record is held by groupby, and at the end of the stream no
\* record is held.
C20_OneGroupPerEpochWithRecords ==
    /\ GroupsInOrderAndExact
    /\ \A k \in 1..Len(groups) : Len(groups[k].group.recs) >= 1
    /\ \A k \in 1..Len(events) :
           \/ Cardinality(GroupsOf(events[k].gn)) = 1
           \/ /\ GroupsOf(events[k].gn) = {}
              /\ \E i \in 1..Len(held) :
                     /\ held[i].gn = events[k].gn
                     /\ held[i].rec = RecordOfEvent(k)
    /\ \A i \in 1..Len(held) : GroupsOf(held[i].gn) = {}
    /\ rpc = "ended" => held = <<>>

\* the stream has ended after records of the epochs 1 and 3 and none of the
\* epoch 2: two groups were yielded
C20_Witness ==
    /\ rpc = "ended" /\ rexc = ""
    /\ count = 3
    /\ Len(groups) = 2
    /\ groups[1].epoch = 1 /\ groups[2].epoch = 3

(***************************************************************************)
(* The end of the progressive filling.                                     *)
(***************************************************************************)
\* C25: the filling stops only when the supply is used up or every demand
\* is met: for every supply >= 0 and every non-empty tuple of demands the
\* shares sum to min(supply, sum of the demands).
C25_FillsUntilExhaustedOrMet ==
    (fpc = "done" /\ Len(demands) > 0) =>
        /\ shares.raised = ""
        /\ SumSeq(shares.value[1]) =
               Min(num_avail_shares, SumSeq(demands))

\* more supply than demand, with a table that demands nothing among tables
\* that demand rows: every demand is met and rows are left over
C25_Witness ==
    /\ fpc = "done" /\ shares.raised = ""
    /\ Len(demands) = 3 /\ demands[2] = 0
    /\ demands[1] > 0 /\ demands[3] > demands[1]
    /\ SumSeq(demands) < num_avail_shares
    /\ SumSeq(shares.value[1]) = SumSeq(demands)

\* C26 as stated: for every supply >= 0 and every tuple of demands, the
\* empty tuple and a tuple of zeros included, the allocation returns
\* without an error, with one share per demand.
C26_ReturnsOneSharePerDemand ==
    fpc = "done" =>
        /\ shares.raised = ""
        /\ Len(shares.value[1]) = Len(demands)

(***************************************************************************)
(* The total of a RecordDelta.                                             *)
(***************************************************************************)
\* C27 as stated: in every RecordDelta the delta of the total bytes is the
\* delta of the bytes read plus the delta of the bytes written, also when
\* one of the two counters wrapped between the snapshots.
C27_TotalIsReadPlusWritten ==
    (fpc = "done" /\ rec_delta.raised = "") =>
        rec_delta.value[1].brw =
            rec_delta.value[1].br + rec_delta.value[1].bw

\* C27 amended: in every RecordDelta the delta of the total bytes is the
\* delta of the bytes read plus the delta of the bytes written, reduced by
\* the modulus of the counters; it is their plain sum whenever that sum is
\* below the modulus, also when one of the two counters wrapped.
C27_TotalIsSumModulo ==
    (fpc = "done" /\ rec_delta.raised = "") =>
        LET d == rec_delta.value[1]
        IN  /\ d.brw = (d.br + d.bw) % CounterModulus
            /\ d.br + d.bw < CounterModulus => d.brw = d.br + d.bw

\* the read counter wrapped and the written counter did not; both deltas
\* are positive and the total is their sum
C27_Witness ==
    /\ fpc = "done" /\ rec_delta.raised = ""
    /\ rec_new.br < rec_old.br /\ rec_new.bw > rec_old.bw
    /\ rec_delta.value[1].br > 0 /\ rec_delta.value[1].bw > 0
    /\ rec_delta.value[1].brw =
           rec_delta.value[1].br + rec_delta.value[1].bw

(***************************************************************************)
(* The overlay and the progress of the two threads.                        *)
(***************************************************************************)
\* C29 as stated: whenever the key listener waits for a key and the display
\* lock is free, the overlay is on the window if and only if the display is
\* paused, and removing the overlay has deleted no character of a frame.
C29_OverlayIffPaused ==
    (kl_pc = "getkey" /\ _disp_lock = "free") =>
        /\ screen.overlay <=> ~_active
        /\ ~screen.damaged

\* a step of the main thread other than the arrival of KeyboardInterrupt
MainStep ==
    \/ IsATty \/ InitCurses \/ StatusAcquire \/ StatusWrite \/ StatusRelease
    \/ NewIterator \/ PullStart \/ Discover \/ Launch \/ Read
    \/ CheckActive \/ Acquire \/ Format \/ Write \/ Release \/ Sleep
    \/ Endwin \/ Close \/ PrintLast

\* Spec under fair scheduling: a thread that can run does run; the key
\* listener, which waits in "with self._disp_lock" for a lock that the
\* main thread takes and releases again and again, gets the lock in the
\* end. No key has to be pressed and no KeyboardInterrupt has to arrive.
FairSpec ==
    /\ Spec
    /\ WF_vars(MainStep)
    /\ WF_vars(KlAlert \/ KlRelease)
    /\ SF_vars(KlAcquire)

\* the render loop never waits for the lock, and the main thread holds the
\* lock only inside _write_initial_status and the body of the if statement
\* of _write_recs, unless an exception has left them
NeverBlocksNorKeeps ==
    /\ main_pc = "acquire" => ENABLED Acquire
    /\ _disp_lock = "main" => (main_pc \in MainHolds \/ exc # "")
    /\ _disp_lock = "kl" <=> kl_pc \in ListenerHolds

RECURSIVE SumOfSet(_, _)
SumOfSet(f, S) ==
    IF S = {} THEN 0
    ELSE LET x == CHOOSE y \in S : TRUE
         IN  f[x] + SumOfSet(f, S \ {x})

\* the positions of the records of item i
RecordsOfItem(recs, lev1_stattype, i) ==
    {k \in 1..Len(recs) : recs[k][lev1_stattype] = i}

\* the sum of the stat over the records at the positions S
SumOverRecords(recs, stat, S) ==
    SumOfSet([k \in S |-> ExactValue(stat, StatOf(recs[k], stat))], S)

\* for one stat: every level-1 total is the sum over the records of its
\* item, and the level-1 totals of each kind add up to the level-2 total
TotalsAgree(recs, stats, stat) ==
    \A lev1_stattype \in _lev1_summary_stat_types :
        LET lev1 == stats.lev1_summary_stats[lev1_stattype]
        IN  /\ \A i \in DOMAIN lev1 :
                   ExactValue(stat, lev1[i][stat]) =
                       SumOverRecords(recs, stat,
                           RecordsOfItem(recs, lev1_stattype, i))
            /\ SumOfSet([i \in DOMAIN lev1 |->
                             ExactValue(stat, lev1[i][stat])], DOMAIN lev1)
                   = ExactValue(stat, stats.lev2_summary_stats[stat])

\* the same for the summary of a RecordGroup, computed on demand
GroupTotalsAgree(grp) ==
    \A stat \in RecordGroup_lev2_summary_stat_types :
        TotalsAgree(grp.recs,
                    compute_summary_stats(grp.recs,
                        RecordGroup_lev2_summary_stat_types),
                    stat)

\* C24 (as claimed): for every RecordGroup or RecordGroupDelta and every
\* summarized metric, each per-node and each per-filesystem total is the sum
\* of the metric over the records of that node or file system, and the
\* per-node totals and the per-filesystem totals each add up to the grand
\* total.
C24_SummaryTotalsAgree ==
    (fpc = "done" /\ grp_delta.raised = "") =>
        /\ \A stat \in RecordGroupDelta_lev2_summary_stat_types :
               TotalsAgree(grp_delta.value[1].recs, grp_delta.value[1], stat)
        /\ GroupTotalsAgree(grp_new)
        /\ GroupTotalsAgree(grp_old)

\* C24 (amended): the identities hold for the byte counts br, bw and brw.
\* The speed totals are sums of floats taken in the order of the records:
\* the total of a node or file system with a single record is that record's
\* speed, and the grand total of a single record is its speed.
C24_ByteTotalsAgree ==
    (fpc = "done" /\ grp_delta.raised = "") =>
        LET delta == grp_delta.value[1]
        IN  /\ \A stat \in RecordGroup_lev2_summary_stat_types :
                   TotalsAgree(delta.recs, delta, stat)
            /\ GroupTotalsAgree(grp_new)
            /\ GroupTotalsAgree(grp_old)
            /\ \A stat \in SpeedTypes, k \in 1..Len(delta.recs) :
                   /\ \A lev1_stattype \in _lev1_summary_stat_types :
                          LET i == delta.recs[k][lev1_stattype]
                          IN  RecordsOfItem(delta.recs, lev1_stattype, i) = {k}
                                  => delta.lev1_summary_stats[lev1_stattype][i]
                                         [stat] = StatOf(delta.recs[k], stat)
                   /\ Len(delta.recs) = 1 =>
                          delta.lev2_summary_stats[stat] =
                              StatOf(delta.recs[k], stat)

\* a delta of four records of two nodes and two file systems with bytes
\* read on each node, whose speed totals do not add up
C24_Witness ==
    /\ fpc = "done" /\ grp_delta.raised = ""
    /\ Len(grp_delta.value[1].recs) = 4
    /\ \A nn \in Nodes :
           /\ nn \in DOMAIN grp_delta.value[1].lev1_summary_stats["nn"]
           /\ grp_delta.value[1].lev1_summary_stats["nn"][nn]["brw"] >= 2
    /\ ~TotalsAgree(grp_delta.value[1].recs, grp_delta.value[1], "brwps")

(***************************************************************************)
(* SpecTables: RecordGroupDelta.tables_str(format_, num_avail_lines) on    *)
(* the delta of two RecordGroups: the node names each table displays.      *)
(***************************************************************************)
\* num_avail_lines is drawn from 0..MaxAvailLines
MaxAvailLines == 20
\* the bytes read and written of a node add up to at most MaxNodeBytes
MaxNodeBytes == 2

\* the nodes of the groups, in the order of their records
TableNodeOrder == <<"n1", "n2", "n3">>

\* RecordGroupDelta._table_types, in the order of the OrderedDict
_table_types == <<"brps", "bwps">>

\* seq[:stop]
SliceTo(seq, stop) ==
    IF stop >= 0 THEN SubSeq(seq, 1, Min(stop, Len(seq)))
    ELSE SubSeq(seq, 1, Len(seq) + stop)

\* the keys of self.lev1_summary_stats[lev1_stattype] in the order of the
\* dict: the order in which the records first name them
RECURSIVE DictKeys(_, _, _, _)
DictKeys(recs, lev1_stattype, k, acc) ==
    IF k > Len(recs) THEN acc
    ELSE LET i == recs[k][lev1_stattype]
         IN  DictKeys(recs, lev1_stattype, k + 1,
                      IF \E j \in 1..Len(acc) : acc[j] = i THEN acc
                      ELSE Append(acc, i))

\* x put behind every element of sorted whose key is not smaller
RECURSIVE InsertDescending(_, _, _)
InsertDescending(sorted, x, key) ==
    IF sorted = <<>> THEN <<x>>
    ELSE IF key[Head(sorted)] >= key[x]
         THEN <<Head(sorted)>> \o InsertDescending(Tail(sorted), x, key)
         ELSE <<x>> \o sorted

\* the list is left in the order of the dict
SortDescending_Unsorted(seq, key, acc) == acc \o seq

\* seq.sort(key = sort_key, reverse = True): a stable sort, elements of
\* equal key stay in their order
RECURSIVE SortDescending(_, _, _)
SortDescending(seq, key, acc) ==
    IF seq = <<>> THEN acc
    ELSE SortDescending(Tail(seq), key,
                        InsertDescending(acc, Head(seq), key))

\* The node names whose total of the stat is > 0, sorted by it, descending:
\* nn_active_names_and_lens for one table type, and the first half of
\* nn_names_and_lens for 'brw'.
ActiveNodes(delta, stat) ==
    LET totals == delta.lev1_summary_stats["nn"]
        key == [nn \in DOMAIN totals |-> ExactValue(stat, totals[nn][stat])]
        Active(nn) == key[nn] > 0
    IN  SortDescending(SelectSeq(DictKeys(delta.recs, "nn", 1, <<>>), Active),
                       key, <<>>)

\* RecordGroupDelta._tables_separated_str up to the choice of the node names:
\* nn_active_names_and_lens, num_avail_lines_per_table with its call of
\* _mmfa_ipf, and nn_displayed_names_and_lens.
_tables_separated_str(delta, avail_lines) ==
    LET tables == 1..Len(_table_types)
        active == [t \in tables |-> ActiveNodes(delta, _table_types[t])]
        supply == IF avail_lines - Len(_table_types) * 7 > 0
                  THEN avail_lines - Len(_table_types) * 7 ELSE 0
        lines_reqd_seq == [t \in tables |-> Len(active[t])]
        lines_avail_seq == mmfa_ipf(supply, lines_reqd_seq)
    IN  [num_avail_shares |-> supply,
         demands |-> lines_reqd_seq,
         shares |-> lines_avail_seq,
         nn_seq |-> [t \in tables |->
                        SliceTo(active[t], lines_avail_seq.value[1][t])],
         nn_seq_len |->
             [active |-> lines_reqd_seq,
              displayed |-> [t \in tables |->
                  Len(SliceTo(active[t], lines_avail_seq.value[1][t]))]]]

\* int(a / b) for b > 0: the quotient truncated towards zero
IntOfQuotient(a, b) == IF a >= 0 THEN a \div b ELSE -((-a) \div b)

\* nn_max of _tables_interlaced_str
nn_max(avail_lines) ==
    IntOfQuotient(avail_lines - 6 - Len(_table_types), Len(_table_types))

\* RecordGroupDelta._tables_interlaced_str up to the choice of the node
\* names: nn_max and nn_names_and_lens.
_tables_interlaced_str(delta, avail_lines) ==
    LET active == ActiveNodes(delta, "brw")
    IN  [nn_seq |-> SliceTo(active, nn_max(avail_lines)),
         nn_seq_len |-> [active |-> Len(active),
                         displayed |->
                             Len(SliceTo(active, nn_max(avail_lines)))]]

\* the (bytes read, bytes written) of a node
NodeBytes ==
    {c \in (0..MaxNodeBytes) \X (0..MaxNodeBytes) : c[1] + c[2] <= MaxNodeBytes}

\* the records of the nodes at the positions S, sorted by node name
TableRecs(S, ts, c) ==
    LET present(k) == k \in S
        positions == SelectSeq([k \in 1..Len(TableNodeOrder) |-> k], present)
    IN  [i \in 1..Len(positions) |->
            Record(TableNodeOrder[positions[i]], "gpfs0", ts,
                   c[positions[i]][1], c[positions[i]][2])]

InitTables ==
    /\ \E S \in (SUBSET (1..Len(TableNodeOrder))) \ {{}} :
       \E c \in [S -> NodeBytes] :
           /\ grp_new = RecordGroup(TableRecs(S, 1, c))
           /\ grp_old = RecordGroup(TableRecs(S, 0, [k \in S |-> <<0, 0>>]))
    /\ grp_delta = NotCalled
    /\ format_ \in {"separated", "interlaced"}
    /\ num_avail_lines \in 0..MaxAvailLines
    /\ nn_seq = <<>> /\ nn_seq_len = <<>>
    /\ rec_new = <<>> /\ rec_old = <<>> /\ rec_delta = NotCalled
    /\ num_avail_shares = 0 /\ demands = <<>> /\ shares = NotCalled
    /\ fpc = "ready"
    /\ DisplayIdle
    /\ PipelineIdle

\* recgrp.tables_str(format_=params.TABLE_TYPE, num_avail_lines=...) on the
\* delta: getattr(self, '_tables_{}_str'.format(format_))(num_avail_lines)
tables_str ==
    /\ fpc = "done" /\ grp_delta.raised = "" /\ format_ # ""
    /\ \/ /\ format_ = "separated"
          /\ LET r == _tables_separated_str(grp_delta.value[1],
                                            num_avail_lines)
             IN  /\ num_avail_shares' = r.num_avail_shares
                 /\ demands' = r.demands
                 /\ shares' = r.shares
                 /\ nn_seq' = r.nn_seq
                 /\ nn_seq_len' = r.nn_seq_len
       \/ /\ format_ = "interlaced"
          /\ LET r == _tables_interlaced_str(grp_delta.value[1],
                                             num_avail_lines)
             IN  /\ nn_seq' = r.nn_seq
                 /\ nn_seq_len' = r.nn_seq_len
          /\ UNCHANGED <<num_avail_shares, demands, shares>>
    /\ fpc' = "shown"
    /\ UNCHANGED <<rec_new, rec_old, rec_delta, grp_new, grp_old, grp_delta,
                   format_, num_avail_lines>>
    /\ UNCHANGED <<dvars, pvars>>

NextTables == RecordGroupSub \/ tables_str

SpecTables == InitTables /\ [][NextTables]_vars

(***************************************************************************)
(* C23: the nodes of the tables of the separated format.                   *)
(***************************************************************************)
\* the per-node total of the stat, as an exact value
NodeTotal(delta, stat, nn) ==
    ExactValue(stat, delta.lev1_summary_stats["nn"][nn][stat])

RespondingSet(delta) == DOMAIN delta.lev1_summary_stats["nn"]

\* the nodes whose total of the stat is > 0
ActiveSet(delta, stat) ==
    {nn \in RespondingSet(delta) : NodeTotal(delta, stat, nn) > 0}

\* the rows left for node names by the header, totals and footer lines
SeparatedRows(avail_lines) ==
    IF avail_lines - 7 * Len(_table_types) > 0
    THEN avail_lines - 7 * Len(_table_types) ELSE 0

\* the names are the first of the active nodes in descending order of the
\* total: distinct active nodes, no later one with a greater total, and no
\* active node left out with a greater total
TopActive(delta, stat, names) ==
    /\ \A a \in 1..Len(names) : names[a] \in ActiveSet(delta, stat)
    /\ \A a, b \in 1..Len(names) :
           a < b => /\ names[a] # names[b]
                    /\ NodeTotal(delta, stat, names[a])
                           >= NodeTotal(delta, stat, names[b])
    /\ \A a \in 1..Len(names) :
       \A nn \in ActiveSet(delta, stat) \ {names[b] : b \in 1..Len(names)} :
           NodeTotal(delta, stat, names[a]) >= NodeTotal(delta, stat, nn)

\* C23: in the separated format every table displays the first k of its
\* active nodes (per-node total of its metric > 0) in descending order of the
\* total, k being its max-min fair share of the rows; a displayed node has a
\* total > 0 and no smaller than that of any active node left out; displayed
\* <= active <= responding; and the displayed rows of all the tables together
\* are at most max(available lines - 7 * number of tables, 0).
C23_SeparatedTopActive ==
    (fpc = "shown" /\ format_ = "separated") =>
        LET delta == grp_delta.value[1]
            tables == 1..Len(_table_types)
            active == [t \in tables |->
                          Cardinality(ActiveSet(delta, _table_types[t]))]
        IN  /\ \A t \in tables :
                   /\ TopActive(delta, _table_types[t], nn_seq[t])
                   /\ Len(nn_seq[t]) =
                          RoundRobinShare(SeparatedRows(num_avail_lines),
                                          active, t)
                   /\ nn_seq_len.displayed[t] = Len(nn_seq[t])
                   /\ nn_seq_len.active[t] = active[t]
                   /\ nn_seq_len.displayed[t] <= nn_seq_len.active[t]
                   /\ nn_seq_len.active[t]
                          <= Cardinality(RespondingSet(delta))
            /\ SumSeq(nn_seq_len.displayed)
                   <= SeparatedRows(num_avail_lines)

\* three active nodes of unequal totals compete for fewer rows in the Read
\* table, the node of the greatest total is not the first record, and a
\* responding node is not active in the Write table
C23_Witness ==
    /\ fpc = "shown" /\ format_ = "separated"
    /\ nn_seq_len.active[1] = 3
    /\ nn_seq_len.displayed[1] \in 1..2
    /\ nn_seq[1][1] # "n1"
    /\ NodeTotal(grp_delta.value[1], "brps", nn_seq[1][1])
           > NodeTotal(grp_delta.value[1], "brps", "n1")
    /\ nn_seq_len.active[2] < 3
    /\ nn_seq_len.displayed[2] >= 1

(***************************************************************************)
(* C28: the nodes of the table of the interlaced format.                   *)
(***************************************************************************)
\* the lines of the interlaced table with n nodes displayed: a row per table
\* type for each node, 6 lines of header and footer, a totals row per table
\* type
InterlacedLines(n) == n * Len(_table_types) + 6 + Len(_table_types)

\* C28: in the interlaced format, for every number of available lines >= 0,
\* the number of displayed nodes is between 0 and the number of active nodes
\* and within the row budget: displayed * tables + 6 + tables <= available
\* lines whenever a node is displayed, so that no node is displayed when
\* the terminal is too small for one.
C28_InterlacedWithinBudget ==
    (fpc = "shown" /\ format_ = "interlaced") =>
        /\ nn_seq_len.displayed = Len(nn_seq)
        /\ nn_seq_len.displayed >= 0
        /\ nn_seq_len.displayed <= nn_seq_len.active
        /\ nn_seq_len.displayed > 0 =>
               InterlacedLines(nn_seq_len.displayed) <= num_avail_lines

(***************************************************************************)
(* SpecDeltas: RecordGroupDeltaIterator over a Receiver whose mmpmon       *)
(* answers with well-formed lines only, from the first line read to the    *)
(* end of the stream.                                                      *)
(***************************************************************************)
\* at most MaxDeltaLines lines are read
MaxDeltaLines == 7

\* the lines of a stream without errors: the records of two nodes, a record
\* with a later timestamp, the completion marker
WellFormedKinds ==
    {FsIoSLine("n1", "0"), FsIoSLine("n2", "0"), LaterLine, MarkerLine}

\* the state of the Receiver once _mmpmon_caller has written its directives
\* and closed the stdin of mmpmon
InitDeltas ==
    /\ mmlsnode_output = <<>> /\ GPFS_NODESET = ""
    /\ \E result \in NodeSeqResults :
           /\ result.raised = ""
           /\ _node_seq = result
           /\ mmpmon_stdin = mmpmon_inputs(result.value[1])
    /\ stdin_closed = TRUE
    /\ rpc = "first_line"
    /\ lines = <<>> /\ count = 0 /\ held = <<>>
    /\ parsed = <<>> /\ events = <<>> /\ groups = <<>> /\ rexc = ""
    /\ deltas = <<>>
    /\ FunctionsIdle
    /\ DisplayIdle

\* "line = next(self._mmpmon_subprocess.stdout)" and a turn of "for line in
\* self._mmpmon_subprocess.stdout" that reads a well-formed line
ReadWellFormedLine ==
    /\ rpc \in {"first_line", "lines"}
    /\ Len(lines) < MaxDeltaLines
    /\ \E line \in WellFormedKinds : TakeLine(line)
    /\ UNCHANGED <<mmlsnode_output, GPFS_NODESET, _node_seq, mmpmon_stdin,
                   stdin_closed>>
    /\ UNCHANGED <<fvars, dvars>>

NextDeltas == ReadWellFormedLine \/ EndOfStream

SpecDeltas == InitDeltas /\ [][NextDeltas]_vars

(***************************************************************************)
(* C21: the deltas are those of the consecutive groups.                    *)
(***************************************************************************)
\* a subtraction rec_grp_curr - rec_grp_prev raised and ended the iteration
SubtractionFailed == rpc = "raised" /\ rexc = "ZeroDivisionError"

\* C21: of the groups g1, ..., gN yielded so far the iterator has yielded
\* N-1 deltas in order, the k-th computed as g(k+1) - g(k), newer minus
\* older, so that no delta is built from groups that are not consecutive or
\* from a group and itself; no delta is yielded with fewer than two groups.
\* A subtraction that raises ends the iteration in place of its delta.
C21_DeltasOfConsecutiveGroups ==
    /\ \A k \in 1..Len(deltas) :
           /\ k + 1 <= Len(groups)
           /\ deltas[k].rec_grp_prev = groups[k]
           /\ deltas[k].rec_grp_curr = groups[k + 1]
           /\ groups[k].epoch < groups[k + 1].epoch
           /\ deltas[k].rec_grp_delta =
                  RecordGroupDelta(groups[k + 1].group,
                                   groups[k].group).value[1]
           /\ deltas[k].rec_grp_delta.timestamp = groups[k + 1].group.timestamp
           /\ deltas[k].rec_grp_delta.time_duration_secs =
                  groups[k + 1].group.timestamp - groups[k].group.timestamp
    /\ Len(groups) < 2 => deltas = <<>>
    /\ Len(groups) >= 1 =>
           Len(deltas) = IF SubtractionFailed THEN Len(groups) - 2
                         ELSE Len(groups) - 1

\* the stream has ended after three groups, and the two deltas hold a
\* record each, the first over a positive time
C21_Witness ==
    /\ rpc = "ended"
    /\ Len(groups) = 3 /\ Len(deltas) = 2
    /\ deltas[1].rec_grp_delta.time_duration_secs > 0
    /\ Len(deltas[1].rec_grp_delta.recs) = 1
    /\ Len(deltas[2].rec_grp_delta.recs) = 1

(***************************************************************************)
(* C22: a delta is yielded once its two epochs are complete.               *)
(***************************************************************************)
\* the event read as the line of the number at
EventAt(at) == {k \in 1..Len(events) : events[k].line = at}

\* every record of the two epochs of the delta was read before the delta was
\* yielded, and none of them after
EpochsComplete(d) ==
    \A k \in 1..Len(events) :
        events[k].gn \in {d.rec_grp_prev.epoch, d.rec_grp_curr.epoch} =>
            /\ events[k].line <= d.at
            /\ d.by = "record" => events[k].line < d.at

\* the line that made the pipeline yield the delta is the first record of
\* one of the epochs in Later
YieldedByFirstRecordOf(d, Later) ==
    /\ d.by = "record"
    /\ \E k \in EventAt(d.at) :
           /\ events[k].gn \in Later
           /\ \A j \in 1..Len(events) :
                  events[j].gn = events[k].gn => events[j].line >= d.at

\* the delta was yielded at the end of the stream, as the last one
YieldedByEndOfStream(d) ==
    /\ d.by = "end"
    /\ rpc = "ended"
    /\ d.at = Len(lines)
    /\ d = deltas[Len(deltas)]

\* C22 (as claimed): no delta is produced before two epochs have been
\* received completely: the delta for the epochs k and k+1 is yielded only
\* after every record of the epoch k+1 has been read, when the first record
\* of the epoch k+2 arrives or the stream of lines ends.
C22_DeltaWhenNextEpochStarts ==
    \A i \in 1..Len(deltas) :
        /\ EpochsComplete(deltas[i])
        /\ \/ YieldedByFirstRecordOf(deltas[i],
                                     {deltas[i].rec_grp_curr.epoch + 1})
           \/ YieldedByEndOfStream(deltas[i])

\* C22 (amended): the delta is yielded only after every record of its two
\* epochs has been read, when the first record of a later epoch arrives (the
\* next epoch with an accepted record, which need not be the epoch k+2) or
\* the stream of lines ends.
C22_DeltaWhenLaterEpochStarts ==
    \A i \in 1..Len(deltas) :
        /\ EpochsComplete(deltas[i])
        /\ deltas[i].rec_grp_prev.epoch < deltas[i].rec_grp_curr.epoch
        /\ \/ YieldedByFirstRecordOf(deltas[i],
                  {e \in 1..count : e > deltas[i].rec_grp_curr.epoch})
           \/ YieldedByEndOfStream(deltas[i])

\* a delta was yielded by the first record of the third epoch and another
\* one at the end of the stream
C22_Witness ==
    /\ rpc = "ended"
    /\ Len(deltas) = 2
    /\ deltas[1].by = "record" /\ deltas[1].at = 6
    /\ deltas[1].rec_grp_curr.epoch = 2
    /\ deltas[2].by = "end"

====
